---- MODULE Spec2Model ----
(***************************************************************************)
(* Quota aggregation engine of packages/web/server/lib/quota-providers.js. *)
(*                                                                         *)
(* One call of fetchQuotaForProvider is a state machine: the synchronous   *)
(* code between two awaits is one action, and what the outbound call does  *)
(* at its suspension point (throw, non-2xx, 2xx with some body) is the     *)
(* action's input.  listConfiguredQuotaProviders reads the same store.     *)
(*                                                                         *)
(* JavaScript values are tagged records: Null (null and undefined),        *)
(* Num(n), NaN, Str(s), Bool(b), and objects [t |-> "object", ...].        *)
(* Strings are TLA+ strings, inspected with Len and SubSeq.                *)
(***************************************************************************)
EXTENDS Integers, Sequences, FiniteSets, TLC

\* ------------------------------------------------------------ bounds

\* Date.now() of the call, in milliseconds ("1970-01-01T00:00:05Z").
Now == 5000

\* toTimestamp's seconds-versus-milliseconds cut-off.  The source compares
\* with 10^12; TLC integers are 32-bit, so the model's clock and the cut-off
\* are scaled down together: a number below it is epoch seconds.
SecondsCutoff == 1000

\* how many aliases of one provider hold an entry in a store of the model
MaxEntries == 2

\* ------------------------------------------------------------ JS values

Null == [t |-> "null"]
NaN == [t |-> "nan"]
Num(n) == [t |-> "number", n |-> n]
Str(s) == [t |-> "string", s |-> s]
Bool(b) == [t |-> "boolean", b |-> b]

IsNull(v) == v.t = "null"
IsNum(v) == v.t = "number"
IsStr(v) == v.t = "string"
IsObj(v) == v.t = "object"

\* typeof v === 'number' (NaN included)
TypeofNumber(v) == v.t \in {"number", "nan"}

\* ToBoolean(v)
Truthy(v) ==
  CASE v.t = "null" -> FALSE
    [] v.t = "nan" -> FALSE
    [] v.t = "number" -> v.n /= 0
    [] v.t = "string" -> v.s /= ""
    [] v.t = "boolean" -> v.b
    [] OTHER -> TRUE

\* o?.f : undefined when o is null, or has no such property
Get(o, f) == IF o.t \in {"object", "array"} /\ f \in DOMAIN o THEN o[f] ELSE Null

\* a ?? b
Coalesce(a, b) == IF IsNull(a) THEN b ELSE a

\* a || b
OrElse(a, b) == IF Truthy(a) THEN a ELSE b

Max(a, b) == IF a > b THEN a ELSE b
Min(a, b) == IF a < b THEN a ELSE b

\* ------------------------------------------------------------ strings

IsSpace(c) == c \in {" ", "\t", "\n"}

RECURSIVE TrimStart(_)
TrimStart(s) ==
  IF Len(s) > 0 /\ IsSpace(SubSeq(s, 1, 1)) THEN TrimStart(SubSeq(s, 2, Len(s))) ELSE s

RECURSIVE TrimEnd(_)
TrimEnd(s) ==
  IF Len(s) > 0 /\ IsSpace(SubSeq(s, Len(s), Len(s)))
  THEN TrimEnd(SubSeq(s, 1, Len(s) - 1))
  ELSE s

\* String.prototype.trim
Trim(s) == TrimEnd(TrimStart(s))

\* String.prototype.startsWith
StartsWith(s, p) == Len(s) >= Len(p) /\ SubSeq(s, 1, Len(p)) = p

\* index of the first occurrence of the one-character string c in s, 0 if none
RECURSIVE IndexFrom(_, _, _)
IndexFrom(s, c, i) ==
  IF i > Len(s) THEN 0
  ELSE IF SubSeq(s, i, i) = c THEN i
  ELSE IndexFrom(s, c, i + 1)

\* String.prototype.split on a one-character separator
RECURSIVE Split(_, _)
Split(s, c) ==
  LET i == IndexFrom(s, c, 1) IN
  IF i = 0 THEN <<s>>
  ELSE <<SubSeq(s, 1, i - 1)>> \o Split(SubSeq(s, i + 1, Len(s)), c)

DigitValue(c) ==
  CASE c = "0" -> 0 [] c = "1" -> 1 [] c = "2" -> 2 [] c = "3" -> 3 [] c = "4" -> 4
    [] c = "5" -> 5 [] c = "6" -> 6 [] c = "7" -> 7 [] c = "8" -> 8 [] c = "9" -> 9
    [] OTHER -> -1

RECURSIVE AllDigits(_)
AllDigits(s) ==
  Len(s) = 0 \/ (DigitValue(SubSeq(s, 1, 1)) >= 0 /\ AllDigits(SubSeq(s, 2, Len(s))))

RECURSIVE DigitsValue(_, _)
DigitsValue(s, acc) ==
  IF Len(s) = 0 THEN acc
  ELSE DigitsValue(SubSeq(s, 2, Len(s)), acc * 10 + DigitValue(SubSeq(s, 1, 1)))

\* Number(string) for integer literals: the string is trimmed, the empty
\* string is 0, an optional sign and digits give the integer, anything else
\* is NaN.
StringToNumber(s) ==
  LET u == Trim(s)
      neg == Len(u) > 0 /\ SubSeq(u, 1, 1) = "-"
      signed == Len(u) > 0 /\ SubSeq(u, 1, 1) \in {"-", "+"}
      d == IF signed THEN SubSeq(u, 2, Len(u)) ELSE u
  IN IF Len(u) = 0 THEN Num(0)
     ELSE IF Len(d) > 0 /\ AllDigits(d)
          THEN Num(IF neg THEN 0 - DigitsValue(d, 0) ELSE DigitsValue(d, 0))
     ELSE NaN

\* Date.parse for the date strings upstream payloads of the model carry
\* (milliseconds since the epoch, NaN for a string that is no date).
DateParse(s) ==
  CASE s = "1970-01-01T00:00:00Z" -> Num(0)
    [] s = "1970-01-01T00:00:03Z" -> Num(3000)
    [] s = "1970-01-01T00:00:07.500Z" -> Num(7500)
    [] s = "1970-01-01T10:00:05Z" -> Num(36005000)
    [] s = "1970-01-01T10:00:05.400Z" -> Num(36005400)
    [] s = "1970-01-01T11:00:05Z" -> Num(39605000)
    [] OTHER -> NaN

\* ------------------------------------------------------------ credentials

\* const asObject = (value) => ...
asObject(value) == IF Truthy(value) /\ IsObj(value) THEN value ELSE Null

\* const asNonEmptyString = (value) => ...
asNonEmptyString(value) ==
  IF ~IsStr(value) THEN Null
  ELSE IF Trim(value.s) /= "" THEN Str(Trim(value.s)) ELSE Null

\* getAuthEntry: the entry of the first alias whose entry is truthy
RECURSIVE getAuthEntry(_, _)
getAuthEntry(auth, aliases) ==
  IF aliases = <<>> THEN Null
  ELSE IF Head(aliases) \in DOMAIN auth /\ Truthy(auth[Head(aliases)])
       THEN auth[Head(aliases)]
  ELSE getAuthEntry(auth, Tail(aliases))

\* a bare string handed on as it is
normalizeAuthEntry_StringAsIs(entry) ==
  IF ~Truthy(entry) THEN Null
  ELSE IF IsStr(entry) THEN entry
  ELSE IF IsObj(entry) THEN entry
  ELSE Null

\* normalizeAuthEntry
normalizeAuthEntry(entry) ==
  IF ~Truthy(entry) THEN Null
  ELSE IF IsStr(entry) THEN [t |-> "object", token |-> entry]
  ELSE IF IsObj(entry) THEN entry
  ELSE Null

\* ------------------------------------------------------------ coercion

\* toNumber: a finite number, or a string Number() turns into one; else null
toNumber(value) ==
  IF IsNum(value) THEN value
  ELSE IF IsStr(value)
       THEN (IF IsNum(StringToNumber(value.s)) THEN StringToNumber(value.s) ELSE Null)
  ELSE Null

\* toTimestamp: epoch seconds or milliseconds, or a date string
toTimestamp(value) ==
  IF ~Truthy(value) THEN Null
  ELSE IF TypeofNumber(value)
       THEN (IF value.n < SecondsCutoff THEN Num(value.n * 1000) ELSE value)
  ELSE IF IsStr(value)
       THEN (IF DateParse(value.s) = NaN THEN Null ELSE DateParse(value.s))
  ELSE Null

\* normalizeTimestamp (z.ai)
normalizeTimestamp(value) ==
  IF ~TypeofNumber(value) THEN Null
  ELSE IF value = NaN THEN NaN
  ELSE IF value.n < SecondsCutoff THEN Num(value.n * 1000) ELSE value

\* new Date(v).getTime() for a truthy string or number
DateGetTime(value) ==
  IF IsStr(value) THEN DateParse(value.s)
  ELSE IF IsNum(value) THEN value
  ELSE NaN

DayMs == 24 * 60 * 60 * 1000

\* formatResetTime: the time alone when the reset falls on the current
\* calendar day, else date, weekday and time (the locale's text is abstract)
formatResetTime(timestamp) ==
  IF timestamp = NaN THEN Str("Invalid Date")
  ELSE IF timestamp.n \div DayMs = Now \div DayMs THEN Str("h:mm")
  ELSE Str("Mon D, Wd h:mm")

\* calculateResetAfterSeconds
calculateResetAfterSeconds(resetAt) ==
  IF ~Truthy(resetAt) THEN Null
  ELSE LET delta == (resetAt.n - Now) \div 1000
       IN Num(IF delta < 0 THEN 0 ELSE delta)

\* toUsageWindow; usedPercent is null or a number
toUsageWindow(usedPercent, windowSeconds, resetAt, valueLabel) ==
  [ usedPercent |-> usedPercent,
    remainingPercent |->
      IF ~IsNull(usedPercent) THEN Num(Max(0, 100 - usedPercent.n)) ELSE Null,
    windowSeconds |-> windowSeconds,
    resetAfterSeconds |-> calculateResetAfterSeconds(resetAt),
    resetAt |-> resetAt,
    resetAtFormatted |-> IF Truthy(resetAt) THEN formatResetTime(resetAt) ELSE Null,
    valueLabel |-> IF Truthy(valueLabel) THEN valueLabel ELSE Null ]

\* buildResult: error is kept only when it is truthy; usage ?? null
buildResult(providerId, providerName, ok, configured, usage, error) ==
  [ providerId |-> providerId,
    providerName |-> providerName,
    ok |-> ok,
    configured |-> configured,
    usage |-> usage,
    error |-> IF Truthy(error) THEN error ELSE Null,
    fetchedAt |-> Now ]

\* a map with no key (a JS object literal {})
EmptyMap == [k \in {} |-> Null]

\* m[k] = v on a JS object used as a map
Put(m, k, v) == [x \in DOMAIN m \cup {k} |-> IF x = k THEN v ELSE m[x]]

\* the map built by assigning the <<key, value>> pairs in order
RECURSIVE MapOf(_)
MapOf(pairs) ==
  IF pairs = <<>> THEN EmptyMap
  ELSE LET n == Len(pairs)
       IN Put(MapOf(SubSeq(pairs, 1, n - 1)), pairs[n][1], pairs[n][2])

Obj == [t |-> "object"]
Arr(items) == [t |-> "array", items |-> items]

\* object literals
O1(k1, v1) == [t |-> "object"] @@ (k1 :> v1)
O2(k1, v1, k2, v2) == O1(k1, v1) @@ (k2 :> v2)
O3(k1, v1, k2, v2, k3, v3) == O2(k1, v1, k2, v2) @@ (k3 :> v3)
O4(k1, v1, k2, v2, k3, v3, k4, v4) == O3(k1, v1, k2, v2, k3, v3) @@ (k4 :> v4)
O5(k1, v1, k2, v2, k3, v3, k4, v4, k5, v5) == O4(k1, v1, k2, v2, k3, v3, k4, v4) @@ (k5 :> v5)

\* Array.isArray(v) ? v : []
ItemsOf(v) == IF v.t = "array" THEN v.items ELSE <<>>

\* Math.max(0, Math.min(100, x))
Clamp100(x) == Max(0, Min(100, x))

\* (a / b) * 100; the payloads of the model keep the quotient integral
Ratio100(a, b) == (a * 100) \div b

\* ------------------------------------------------------------ providers

\* the identifiers fetchQuotaForProvider routes
KnownProviders ==
  { "claude", "codex", "github-copilot", "github-copilot-addon", "google",
    "kimi-for-coding", "nano-gpt", "openrouter", "zai-coding-plan" }

\* the single-endpoint fetchers (all but Google)
BearerProviders == KnownProviders \ {"google"}

\* the alias list each fetcher hands to getAuthEntry
Aliases(id) ==
  CASE id = "claude" -> <<"anthropic", "claude">>
    [] id = "codex" -> <<"openai", "codex", "chatgpt">>
    [] id \in {"github-copilot", "github-copilot-addon"} -> <<"github-copilot", "copilot">>
    [] id = "google" -> <<"google", "google.oauth">>
    [] id = "kimi-for-coding" -> <<"kimi-for-coding", "kimi">>
    [] id = "nano-gpt" -> <<"nano-gpt", "nanogpt", "nano_gpt">>
    [] id = "openrouter" -> <<"openrouter">>
    [] id = "zai-coding-plan" -> <<"zai-coding-plan", "zai", "z.ai">>
    [] OTHER -> <<>>

ProviderName(id) ==
  CASE id = "claude" -> "Claude"
    [] id = "codex" -> "Codex"
    [] id = "github-copilot" -> "GitHub Copilot"
    [] id = "github-copilot-addon" -> "GitHub Copilot Add-on"
    [] id = "google" -> "Google"
    [] id = "kimi-for-coding" -> "Kimi for Coding"
    [] id = "nano-gpt" -> "NanoGPT"
    [] id = "openrouter" -> "OpenRouter"
    [] id = "zai-coding-plan" -> "z.ai"
    [] OTHER -> id

UsageUrl(id) ==
  CASE id = "claude" -> "https://api.anthropic.com/api/oauth/usage"
    [] id = "codex" -> "https://chatgpt.com/backend-api/wham/usage"
    [] id \in {"github-copilot", "github-copilot-addon"} ->
         "https://api.github.com/copilot_internal/user"
    [] id = "kimi-for-coding" -> "https://api.kimi.com/coding/v1/usages"
    [] id = "nano-gpt" -> "https://nano-gpt.com/api/subscription/v1/usage"
    [] id = "openrouter" -> "https://openrouter.ai/api/v1/credits"
    [] id = "zai-coding-plan" -> "https://api.z.ai/api/monitor/usage/quota/limit"
    [] OTHER -> ""

\* the property a fetcher reads first: entry?.access or entry?.key
SecretField(id) ==
  IF id \in {"claude", "codex", "github-copilot", "github-copilot-addon"}
  THEN "access" ELSE "key"

\* const accessToken = entry?.access ?? entry?.token   (apiKey: entry?.key ?? ...)
FetcherSecret(auth, id) ==
  LET entry == normalizeAuthEntry(getAuthEntry(auth, Aliases(id)))
  IN Coalesce(Get(entry, SecretField(id)), Get(entry, "token"))

\* the test listConfiguredQuotaProviders makes: entry?.access || entry?.token
ListedSecret(auth, id) ==
  LET entry == normalizeAuthEntry(getAuthEntry(auth, Aliases(id)))
  IN OrElse(Get(entry, SecretField(id)), Get(entry, "token"))

\* ------------------------------------------------------------ windows

\* one optional <<label, window>> pair of a windows map
Opt(cond, label, window) == IF cond THEN << <<label, window>> >> ELSE <<>>

\* fetchClaudeQuota, from the payload to usage.windows
ClaudeWindow(w) ==
  toUsageWindow(toNumber(Get(w, "utilization")), Null, toTimestamp(Get(w, "resets_at")), Null)

ClaudeWindows(payload) ==
  LET fiveHour == Get(payload, "five_hour")
      sevenDay == Get(payload, "seven_day")
      sevenDaySonnet == Get(payload, "seven_day_sonnet")
      sevenDayOpus == Get(payload, "seven_day_opus")
  IN MapOf(Opt(Truthy(fiveHour), "5h", ClaudeWindow(fiveHour))
           \o Opt(Truthy(sevenDay), "7d", ClaudeWindow(sevenDay))
           \o Opt(Truthy(sevenDaySonnet), "7d-sonnet", ClaudeWindow(sevenDaySonnet))
           \o Opt(Truthy(sevenDayOpus), "7d-opus", ClaudeWindow(sevenDayOpus)))

\* formatMoney: value.toFixed(2) of a finite number, else null
formatMoney(value) == IF IsNum(value) THEN Str(ToString(value.n) \o ".00") ELSE Null

\* fetchCodexQuota, from the payload to usage.windows
CodexWindow(w) ==
  toUsageWindow(toNumber(Get(w, "used_percent")),
                toNumber(Get(w, "limit_window_seconds")),
                toTimestamp(Get(w, "reset_at")), Null)

CodexWindows(payload) ==
  LET primary == Get(Get(payload, "rate_limit"), "primary_window")
      secondary == Get(Get(payload, "rate_limit"), "secondary_window")
      credits == Get(payload, "credits")
      balance == toNumber(Get(credits, "balance"))
      label == IF Truthy(Get(credits, "unlimited")) THEN Str("Unlimited")
               ELSE IF ~IsNull(balance)
                    THEN Str("$" \o formatMoney(balance).s \o " remaining")
               ELSE Null
  IN MapOf(Opt(Truthy(primary), "5h", CodexWindow(primary))
           \o Opt(Truthy(secondary), "weekly", CodexWindow(secondary))
           \o Opt(Truthy(credits), "credits", toUsageWindow(Null, Null, Null, label)))

\* a snapshot's window with the percentage left as computed
CopilotWindow_NoClamp(snapshot, resetAt) ==
  LET entitlement == toNumber(Get(snapshot, "entitlement"))
      remaining == toNumber(Get(snapshot, "remaining"))
      usedPercent == IF Truthy(entitlement) /\ ~IsNull(remaining)
                     THEN Num(100 - Ratio100(remaining.n, entitlement.n))
                     ELSE Null
      valueLabel == IF ~IsNull(entitlement) /\ ~IsNull(remaining)
                    THEN Str(ToString(remaining.n) \o " / " \o ToString(entitlement.n) \o " left")
                    ELSE Null
  IN toUsageWindow(usedPercent, Null, resetAt, valueLabel)

\* buildCopilotWindows
CopilotWindow(snapshot, resetAt) ==
  LET entitlement == toNumber(Get(snapshot, "entitlement"))
      remaining == toNumber(Get(snapshot, "remaining"))
      usedPercent == IF Truthy(entitlement) /\ ~IsNull(remaining)
                     THEN Num(Clamp100(100 - Ratio100(remaining.n, entitlement.n)))
                     ELSE Null
      valueLabel == IF ~IsNull(entitlement) /\ ~IsNull(remaining)
                    THEN Str(ToString(remaining.n) \o " / " \o ToString(entitlement.n) \o " left")
                    ELSE Null
  IN toUsageWindow(usedPercent, Null, resetAt, valueLabel)

buildCopilotWindows(payload) ==
  LET quota == Coalesce(Get(payload, "quota_snapshots"), Obj)
      resetAt == toTimestamp(Get(payload, "quota_reset_date"))
      chat == Get(quota, "chat")
      completions == Get(quota, "completions")
      premium == Get(quota, "premium_interactions")
  IN MapOf(Opt(Truthy(chat), "chat", CopilotWindow(chat, resetAt))
           \o Opt(Truthy(completions), "completions", CopilotWindow(completions, resetAt))
           \o Opt(Truthy(premium), "premium", CopilotWindow(premium, resetAt)))

\* fetchCopilotAddonQuota: the premium window alone when there is one
CopilotAddonWindows(payload) ==
  LET windows == buildCopilotWindows(payload)
  IN IF "premium" \in DOMAIN windows
     THEN MapOf(<< <<"premium", windows["premium"]>> >>)
     ELSE windows

\* durationToLabel
durationToLabel(duration, unit) ==
  IF ~Truthy(duration) \/ ~Truthy(unit) THEN "limit"
  ELSE IF unit = Str("TIME_UNIT_MINUTE") THEN ToString(duration.n) \o "m"
  ELSE IF unit = Str("TIME_UNIT_HOUR") THEN ToString(duration.n) \o "h"
  ELSE IF unit = Str("TIME_UNIT_DAY") THEN ToString(duration.n) \o "d"
  ELSE "limit"

\* durationToSeconds
durationToSeconds(duration, unit) ==
  IF ~Truthy(duration) \/ ~Truthy(unit) THEN Null
  ELSE IF unit = Str("TIME_UNIT_MINUTE") THEN Num(duration.n * 60)
  ELSE IF unit = Str("TIME_UNIT_HOUR") THEN Num(duration.n * 3600)
  ELSE IF unit = Str("TIME_UNIT_DAY") THEN Num(duration.n * 86400)
  ELSE Null

\* the used percentage of a (limit, remaining) pair, as Kimi computes it
KimiUsedPercent(limit, remaining) ==
  IF Truthy(limit) /\ ~IsNull(remaining)
  THEN Num(Clamp100(100 - Ratio100(remaining.n, limit.n)))
  ELSE Null

\* an entry kept under its plain duration label whatever its window
KimiLimit_PlainLabel(limit) ==
  LET window == Get(limit, "window")
      detail == Get(limit, "detail")
      rawLabel == durationToLabel(Get(window, "duration"), Get(window, "timeUnit"))
      windowSeconds == durationToSeconds(Get(window, "duration"), Get(window, "timeUnit"))
  IN <<rawLabel,
       toUsageWindow(KimiUsedPercent(toNumber(Get(detail, "limit")),
                                     toNumber(Get(detail, "remaining"))),
                     windowSeconds, toTimestamp(Get(detail, "resetTime")), Null)>>

\* one entry of payload.limits: its label and its window
KimiLimit(limit) ==
  LET window == Get(limit, "window")
      detail == Get(limit, "detail")
      rawLabel == durationToLabel(Get(window, "duration"), Get(window, "timeUnit"))
      windowSeconds == durationToSeconds(Get(window, "duration"), Get(window, "timeUnit"))
      label == IF windowSeconds = Num(5 * 60 * 60)
               THEN "Rate Limit (" \o rawLabel \o ")" ELSE rawLabel
  IN <<label,
       toUsageWindow(KimiUsedPercent(toNumber(Get(detail, "limit")),
                                     toNumber(Get(detail, "remaining"))),
                     windowSeconds, toTimestamp(Get(detail, "resetTime")), Null)>>

\* fetchKimiQuota, from the payload to usage.windows
KimiWindows(payload) ==
  LET usage == Get(payload, "usage")
      limits == ItemsOf(Get(payload, "limits"))
  IN MapOf(Opt(Truthy(usage), "weekly",
               toUsageWindow(KimiUsedPercent(toNumber(Get(usage, "limit")),
                                             toNumber(Get(usage, "remaining"))),
                             Null, toTimestamp(Get(usage, "resetTime")), Null))
           \o [i \in 1..Len(limits) |-> KimiLimit(limits[i])])

\* fetchOpenRouterQuota, from the payload to usage.windows
OpenRouterWindows(payload) ==
  LET credits == Coalesce(Get(payload, "data"), Obj)
      totalCredits == toNumber(Get(credits, "total_credits"))
      totalUsage == toNumber(Get(credits, "total_usage"))
      remaining == IF ~IsNull(totalCredits) /\ ~IsNull(totalUsage)
                   THEN Num(Max(0, totalCredits.n - totalUsage.n)) ELSE Null
      usedPercent == IF Truthy(totalCredits) /\ ~IsNull(totalUsage)
                     THEN Num(Clamp100(Ratio100(totalUsage.n, totalCredits.n)))
                     ELSE Null
      valueLabel == IF ~IsNull(remaining)
                    THEN Str("$" \o formatMoney(remaining).s \o " remaining") ELSE Null
  IN MapOf(<< <<"credits", toUsageWindow(usedPercent, Null, Null, valueLabel)>> >>)

\* ZAI_TOKEN_WINDOW_SECONDS[unit]: { 3: 3600 }
ZaiUnitSeconds(unit) == IF unit \in {Num(3), Str("3")} THEN Num(3600) ELSE Null

\* resolveWindowSeconds
resolveWindowSeconds(limit) ==
  IF ~Truthy(limit) \/ ~Truthy(Get(limit, "number")) THEN Null
  ELSE IF ~Truthy(ZaiUnitSeconds(Get(limit, "unit"))) THEN Null
  ELSE Num(ZaiUnitSeconds(Get(limit, "unit")).n * Get(limit, "number").n)

\* resolveWindowLabel
resolveWindowLabel(windowSeconds) ==
  IF ~Truthy(windowSeconds) THEN "tokens"
  ELSE IF windowSeconds.n % 86400 = 0
       THEN (IF windowSeconds.n \div 86400 = 7 THEN "weekly"
             ELSE ToString(windowSeconds.n \div 86400) \o "d")
  ELSE IF windowSeconds.n % 3600 = 0 THEN ToString(windowSeconds.n \div 3600) \o "h"
  ELSE ToString(windowSeconds.n) \o "s"

\* limits.find((limit) => limit?.type === 'TOKENS_LIMIT')
RECURSIVE FindTokensLimit(_)
FindTokensLimit(limits) ==
  IF limits = <<>> THEN Null
  ELSE IF Get(Head(limits), "type") = Str("TOKENS_LIMIT") THEN Head(limits)
  ELSE FindTokensLimit(Tail(limits))

\* fetchZaiQuota, from the payload to usage.windows
ZaiWindows(payload) ==
  LET limits == ItemsOf(Get(Get(payload, "data"), "limits"))
      tokensLimit == FindTokensLimit(limits)
      windowSeconds == resolveWindowSeconds(tokensLimit)
      windowLabel == resolveWindowLabel(windowSeconds)
      resetAt == IF Truthy(Get(tokensLimit, "nextResetTime"))
                 THEN normalizeTimestamp(Get(tokensLimit, "nextResetTime")) ELSE Null
      usedPercent == IF TypeofNumber(Get(tokensLimit, "percentage"))
                     THEN Get(tokensLimit, "percentage") ELSE Null
  IN MapOf(Opt(Truthy(tokensLimit), windowLabel,
               toUsageWindow(usedPercent, windowSeconds, resetAt, Null)))

\* NANO_GPT_DAILY_WINDOW_SECONDS
NANO_GPT_DAILY_WINDOW_SECONDS == 86400

\* the used percentage of a tier, not clamped
NanoGptUsedPercent_NoClamp(tier, limitKey) ==
  LET percentUsed == Get(tier, "percentUsed")
      used == toNumber(Get(tier, "used"))
      limit == toNumber(Coalesce(Get(tier, "limit"), Get(Get(tier, "limits"), limitKey)))
  IN IF TypeofNumber(percentUsed) THEN Num(percentUsed.n * 100)
     ELSE IF ~IsNull(used) /\ ~IsNull(limit) /\ limit.n > 0
          THEN Num(Ratio100(used.n, limit.n))
     ELSE Null

\* the used percentage of one NanoGPT tier; limitKey is "daily" or "monthly"
NanoGptUsedPercent(tier, limitKey) ==
  LET percentUsed == Get(tier, "percentUsed")
      used == toNumber(Get(tier, "used"))
      limit == toNumber(Coalesce(Get(tier, "limit"), Get(Get(tier, "limits"), limitKey)))
  IN IF TypeofNumber(percentUsed) THEN Num(Clamp100(percentUsed.n * 100))
     ELSE IF ~IsNull(used) /\ ~IsNull(limit) /\ limit.n > 0
          THEN Num(Clamp100(Ratio100(used.n, limit.n)))
     ELSE Null

\* fetchNanoGptQuota, from the payload to usage.windows
NanoGptWindows(payload) ==
  LET period == Get(payload, "period")
      daily == Get(payload, "daily")
      monthly == Get(payload, "monthly")
      state == Coalesce(Get(payload, "state"), Str("active"))
      valueLabel == IF state /= Str("active")
                    THEN Str("(" \o (IF IsStr(state) THEN state.s ELSE "?") \o ")")
                    ELSE Null
  IN MapOf(Opt(Truthy(daily), "daily",
               toUsageWindow(NanoGptUsedPercent(daily, "daily"),
                             Num(NANO_GPT_DAILY_WINDOW_SECONDS),
                             toTimestamp(Get(daily, "resetAt")), valueLabel))
           \o Opt(Truthy(monthly), "monthly",
                  toUsageWindow(NanoGptUsedPercent(monthly, "monthly"), Null,
                                toTimestamp(Coalesce(Get(monthly, "resetAt"),
                                                     Get(period, "currentPeriodEnd"))),
                                valueLabel)))

\* usage: { windows } of the fetcher routed for id
BearerWindows(id, payload) ==
  CASE id = "claude" -> ClaudeWindows(payload)
    [] id = "codex" -> CodexWindows(payload)
    [] id = "github-copilot" -> buildCopilotWindows(payload)
    [] id = "github-copilot-addon" -> CopilotAddonWindows(payload)
    [] id = "kimi-for-coding" -> KimiWindows(payload)
    [] id = "nano-gpt" -> NanoGptWindows(payload)
    [] id = "openrouter" -> OpenRouterWindows(payload)
    [] id = "zai-coding-plan" -> ZaiWindows(payload)

\* ------------------------------------------------------------ Google sources

DEFAULT_PROJECT_ID == "rising-fact-p41fc"
GOOGLE_FIVE_HOUR_WINDOW_SECONDS == 5 * 60 * 60
GOOGLE_DAILY_WINDOW_SECONDS == 24 * 60 * 60
GOOGLE_PRIMARY_ENDPOINT == "https://cloudcode-pa.googleapis.com"
GOOGLE_TOKEN_URL == "https://oauth2.googleapis.com/token"

GOOGLE_ENDPOINTS ==
  << "https://daily-cloudcode-pa.sandbox.googleapis.com",
     "https://autopush-cloudcode-pa.sandbox.googleapis.com",
     GOOGLE_PRIMARY_ENDPOINT >>

\* Math.round(x / 1000)
RoundDiv1000(x) == (x + 500) \div 1000

\* a threshold of ten hours that is reached rather than exceeded
resolveGoogleWindow_AtLeastTenHours(sourceId, resetAt) ==
  IF sourceId = "gemini" THEN [label |-> "daily", seconds |-> GOOGLE_DAILY_WINDOW_SECONDS]
  ELSE IF sourceId = "antigravity"
       THEN (IF IsNum(resetAt) /\ Max(0, RoundDiv1000(resetAt.n - Now)) >= 10 * 60 * 60
             THEN [label |-> "daily", seconds |-> GOOGLE_DAILY_WINDOW_SECONDS]
             ELSE [label |-> "5h", seconds |-> GOOGLE_FIVE_HOUR_WINDOW_SECONDS])
  ELSE [label |-> "daily", seconds |-> GOOGLE_DAILY_WINDOW_SECONDS]

\* resolveGoogleWindow
resolveGoogleWindow(sourceId, resetAt) ==
  IF sourceId = "gemini" THEN [label |-> "daily", seconds |-> GOOGLE_DAILY_WINDOW_SECONDS]
  ELSE IF sourceId = "antigravity"
       THEN (IF IsNum(resetAt) /\ Max(0, RoundDiv1000(resetAt.n - Now)) > 10 * 60 * 60
             THEN [label |-> "daily", seconds |-> GOOGLE_DAILY_WINDOW_SECONDS]
             ELSE [label |-> "5h", seconds |-> GOOGLE_FIVE_HOUR_WINDOW_SECONDS])
  ELSE [label |-> "daily", seconds |-> GOOGLE_DAILY_WINDOW_SECONDS]

\* the i-th part of refreshToken.split('|'), '' by default
PartOr(parts, i) == IF i <= Len(parts) THEN parts[i] ELSE ""

\* parseGoogleRefreshToken
parseGoogleRefreshToken(rawRefreshToken) ==
  LET refreshToken == asNonEmptyString(rawRefreshToken)
      parts == Split(refreshToken.s, "|")
  IN IF ~Truthy(refreshToken)
     THEN [refreshToken |-> Null, projectId |-> Null, managedProjectId |-> Null]
     ELSE [refreshToken |-> asNonEmptyString(Str(PartOr(parts, 1))),
           projectId |-> asNonEmptyString(Str(PartOr(parts, 2))),
           managedProjectId |-> asNonEmptyString(Str(PartOr(parts, 3)))]

\* resolveGeminiCliAuth
resolveGeminiCliAuth(auth) ==
  LET entry == normalizeAuthEntry(getAuthEntry(auth, <<"google", "google.oauth">>))
      entryObject == asObject(entry)
      oauthObject == Coalesce(asObject(Get(entryObject, "oauth")), entryObject)
      accessToken == Coalesce(asNonEmptyString(Get(oauthObject, "access")),
                              asNonEmptyString(Get(oauthObject, "token")))
      refreshParts == parseGoogleRefreshToken(Get(oauthObject, "refresh"))
  IN IF ~Truthy(entryObject) THEN Null
     ELSE IF ~Truthy(accessToken) /\ ~Truthy(refreshParts.refreshToken) THEN Null
     ELSE [t |-> "object",
           sourceId |-> "gemini",
           sourceLabel |-> "Gemini",
           accessToken |-> accessToken,
           refreshToken |-> refreshParts.refreshToken,
           projectId |-> Coalesce(refreshParts.projectId, refreshParts.managedProjectId),
           expires |-> toTimestamp(Get(oauthObject, "expires"))]

\* readJsonFile: a file is "missing", "unreadable", "empty" (blank text),
\* "malformed" (JSON.parse throws), or holds a JSON value
readJsonFile(file) ==
  IF file.state = "json" THEN file.json ELSE Null

\* accounts[index] ?? accounts[0]
AccountAt(accounts, index) ==
  IF IsNum(index) /\ index.n >= 0 /\ index.n < Len(accounts)
     /\ ~IsNull(accounts[index.n + 1])
  THEN accounts[index.n + 1]
  ELSE accounts[1]

\* the source resolveAntigravityAuth builds from one account
AntigravitySource(account) ==
  LET refreshParts == parseGoogleRefreshToken(Get(account, "refreshToken"))
  IN [t |-> "object",
      sourceId |-> "antigravity",
      sourceLabel |-> "Antigravity",
      refreshToken |-> refreshParts.refreshToken,
      projectId |->
        Coalesce(asNonEmptyString(Get(account, "projectId")),
          Coalesce(asNonEmptyString(Get(account, "managedProjectId")),
            Coalesce(refreshParts.projectId, refreshParts.managedProjectId))),
      email |-> Get(account, "email")]

\* the first location alone
resolveAntigravityAuth_FirstFileOnly(fs) ==
  IF fs = <<>> THEN Null
  ELSE LET data == readJsonFile(Head(fs))
           accounts == ItemsOf(Get(data, "accounts"))
           index == IF TypeofNumber(Get(data, "activeIndex"))
                    THEN Get(data, "activeIndex") ELSE Num(0)
       IN IF Len(accounts) > 0 /\ Truthy(Get(AccountAt(accounts, index), "refreshToken"))
          THEN AntigravitySource(AccountAt(accounts, index))
          ELSE Null

\* resolveAntigravityAuth over the files at ANTIGRAVITY_ACCOUNTS_PATHS
RECURSIVE resolveAntigravityAuth(_)
resolveAntigravityAuth(fs) ==
  IF fs = <<>> THEN Null
  ELSE LET data == readJsonFile(Head(fs))
           accounts == ItemsOf(Get(data, "accounts"))
           index == IF TypeofNumber(Get(data, "activeIndex"))
                    THEN Get(data, "activeIndex") ELSE Num(0)
       IN IF Len(accounts) > 0 /\ Truthy(Get(AccountAt(accounts, index), "refreshToken"))
          THEN AntigravitySource(AccountAt(accounts, index))
          ELSE resolveAntigravityAuth(Tail(fs))

\* the two sources in the other order
resolveGoogleAuthSources_AntigravityFirst(auth, fs) ==
  (IF Truthy(resolveAntigravityAuth(fs)) THEN <<resolveAntigravityAuth(fs)>> ELSE <<>>)
  \o (IF Truthy(resolveGeminiCliAuth(auth)) THEN <<resolveGeminiCliAuth(auth)>> ELSE <<>>)

\* resolveGoogleAuthSources: Gemini first, then Antigravity
resolveGoogleAuthSources(auth, fs) ==
  (IF Truthy(resolveGeminiCliAuth(auth)) THEN <<resolveGeminiCliAuth(auth)>> ELSE <<>>)
  \o (IF Truthy(resolveAntigravityAuth(fs)) THEN <<resolveAntigravityAuth(fs)>> ELSE <<>>)

\* listConfiguredQuotaProviders
listConfiguredQuotaProviders(auth, fs) ==
  { id \in BearerProviders : Truthy(ListedSecret(auth, id)) }
  \cup (IF Truthy(resolveGeminiCliAuth(auth)) \/ Truthy(resolveAntigravityAuth(fs))
        THEN {"google"} ELSE {})

\* ------------------------------------------------------------ Google fetch

\* the upstream name used as the key, with no source prefix
ScopedName_Bare(sourceId, name) ==
  name

\* `${sourceId}/${name}` unless the name already starts with `${sourceId}/`
ScopedName(sourceId, name) ==
  IF StartsWith(name, sourceId \o "/") THEN name ELSE sourceId \o "/" \o name

\* models[scopedName] = { windows: { [window.label]: toUsageWindow(...) } }
GoogleModel(sourceId, usedPercent, resetAt) ==
  LET window == resolveGoogleWindow(sourceId, resetAt)
  IN [windows |-> MapOf(<< <<window.label,
                            toUsageWindow(usedPercent, Num(window.seconds), resetAt, Null)>> >>)]

\* 100 minus the rounded percentage of a remaining fraction, not below 0
UsedOfFraction(remainingFraction) ==
  IF IsNull(remainingFraction) THEN Null
  ELSE Num(Max(0, 100 - remainingFraction.n * 100))

\* the loop over quotaPayload.buckets (Gemini source)
RECURSIVE MergeBuckets(_, _, _)
MergeBuckets(models, sourceId, buckets) ==
  IF buckets = <<>> THEN models
  ELSE LET bucket == Head(buckets)
           modelId == asNonEmptyString(Get(bucket, "modelId"))
       IN IF ~Truthy(modelId) THEN MergeBuckets(models, sourceId, Tail(buckets))
          ELSE MergeBuckets(
                 Put(models, ScopedName(sourceId, modelId.s),
                     GoogleModel(sourceId,
                                 UsedOfFraction(toNumber(Get(bucket, "remainingFraction"))),
                                 toTimestamp(Get(bucket, "resetTime")))),
                 sourceId, Tail(buckets))

\* Object.entries(o): the <<key, value>> pairs of a JSON object, in order
EntriesOf(o) == IF o.t = "object" /\ "entries" \in DOMAIN o THEN o.entries ELSE <<>>

\* the loop over Object.entries(payload.models ?? {})
RECURSIVE MergeModels(_, _, _)
MergeModels(models, sourceId, entries) ==
  IF entries = <<>> THEN models
  ELSE LET modelName == Head(entries)[1]
           quotaInfo == Get(Head(entries)[2], "quotaInfo")
           remainingFraction == Get(quotaInfo, "remainingFraction")
           resetTime == Get(quotaInfo, "resetTime")
       IN MergeModels(
            Put(models, ScopedName(sourceId, modelName),
                GoogleModel(sourceId,
                            UsedOfFraction(IF TypeofNumber(remainingFraction)
                                           THEN remainingFraction ELSE Null),
                            IF Truthy(resetTime) THEN DateGetTime(resetTime) ELSE Null)),
            sourceId, Tail(entries))

\* the outbound calls
NoCall == [kind |-> "none"]

UsageCall(id, secret) ==
  [kind |-> "usage", source |-> id, url |-> UsageUrl(id), bearer |-> secret.s]

RefreshCall(source) ==
  [kind |-> "refresh", source |-> source.sourceId, url |-> GOOGLE_TOKEN_URL,
   bearer |-> source.refreshToken.s]

BucketsCall(source, accessToken) ==
  [kind |-> "buckets", source |-> source.sourceId,
   url |-> GOOGLE_PRIMARY_ENDPOINT \o "/v1internal:retrieveUserQuota",
   bearer |-> accessToken.s]

ModelsCall(source, accessToken, k) ==
  [kind |-> "models", source |-> source.sourceId,
   url |-> GOOGLE_ENDPOINTS[k] \o "/v1internal:fetchAvailableModels",
   bearer |-> accessToken.s]

NoResult == [none |-> TRUE]

\* where a call stands: its position, the call in flight, the requests
\* sent so far, fetchGoogleQuota's locals, and how the promise settled
Config(pc_, call_, requests_, g_, outcome_, result_) ==
  [pc |-> pc_, call |-> call_, requests |-> requests_, g |-> g_,
   outcome |-> outcome_, result |-> result_]

Resolved(requests_, g_, result_) == Config("done", NoCall, requests_, g_, "resolved", result_)

Awaiting(requests_, g_, call_) ==
  Config("await_fetch", call_, Append(requests_, call_), g_, "pending", NoResult)

\* the locals of fetchGoogleQuota
GoogleLocals(sources) ==
  [sources |-> sources, idx |-> 1, accessToken |-> Null, mergedAnyModel |-> FALSE,
   endpoint |-> 0, models |-> EmptyMap, sourceErrors |-> <<>>]

NoLocals == GoogleLocals(<<>>)

\* fetchGoogleQuota after the loop: the result
GoogleResult(g) ==
  IF DOMAIN g.models = {}
  THEN buildResult("google", "Google", FALSE, TRUE, Null,
                   Str(IF g.sourceErrors /= <<>> THEN g.sourceErrors[1]
                       ELSE "Failed to fetch models"))
  ELSE buildResult("google", "Google", TRUE, TRUE,
                   [t |-> "object", windows |-> EmptyMap, models |-> g.models], Null)

\* sourceErrors.push(...); continue
SkipSource(g, message) ==
  [g EXCEPT !.idx = @ + 1,
            !.sourceErrors = Append(@, g.sources[g.idx].sourceLabel \o ": " \o message)]

\* every source is refreshed, whatever it holds
NeedsRefresh_Always(source) ==
  TRUE

\* a stored access token is used whatever its expiry
NeedsRefresh_IgnoresExpiry(source) ==
  ~Truthy(Get(source, "accessToken"))

\* does the loop body refresh the token of this source
NeedsRefresh(source) ==
  ~Truthy(Get(source, "accessToken"))
  \/ (TypeofNumber(Get(source, "expires")) /\ Get(source, "expires").n <= Now)

RECURSIVE StartSource(_, _)
RECURSIVE WithToken(_, _, _)

\* the loop body from its head to its first await (or the result, when
\* the sources are exhausted)
StartSource(g, requests) ==
  IF g.idx > Len(g.sources) THEN Resolved(requests, g, GoogleResult(g))
  ELSE LET source == g.sources[g.idx]
       IN IF NeedsRefresh(source)
          THEN (IF ~Truthy(source.refreshToken)
                THEN StartSource(SkipSource(g, "Missing refresh token"), requests)
                ELSE Awaiting(requests, g, RefreshCall(source)))
          ELSE WithToken(g, Get(source, "accessToken"), requests)

\* the quota buckets asked for every source, Antigravity included
WithToken_BucketsForAll(g, accessToken, requests) ==
  IF ~Truthy(accessToken)
  THEN StartSource(SkipSource(g, "Failed to refresh OAuth token"), requests)
  ELSE LET source == g.sources[g.idx]
           h == [g EXCEPT !.accessToken = accessToken, !.mergedAnyModel = FALSE,
                          !.endpoint = 0]
       IN Awaiting(requests, h, BucketsCall(source, accessToken))

\* the loop body from `if (!accessToken)` to its next await
WithToken(g, accessToken, requests) ==
  IF ~Truthy(accessToken)
  THEN StartSource(SkipSource(g, "Failed to refresh OAuth token"), requests)
  ELSE LET source == g.sources[g.idx]
           h == [g EXCEPT !.accessToken = accessToken, !.mergedAnyModel = FALSE,
                          !.endpoint = 0]
       IN IF source.sourceId = "gemini"
          THEN Awaiting(requests, h, BucketsCall(source, accessToken))
          ELSE Awaiting(requests, [h EXCEPT !.endpoint = 1],
                        ModelsCall(source, accessToken, 1))

\* fetchGoogleQuotaBuckets returned quotaPayload: merge, then list models
AfterBuckets(g, quotaPayload, requests) ==
  LET source == g.sources[g.idx]
      buckets == ItemsOf(Get(quotaPayload, "buckets"))
      models == MergeBuckets(g.models, source.sourceId, buckets)
      merged == \E i \in 1..Len(buckets) : Truthy(asNonEmptyString(Get(buckets[i], "modelId")))
  IN Awaiting(requests,
              [g EXCEPT !.models = models, !.mergedAnyModel = merged, !.endpoint = 1],
              ModelsCall(source, g.accessToken, 1))

\* a listed model leaves an entry the buckets already gave as it is
AfterModels_KeepsBucketEntries(g, payload, requests) ==
  LET source == g.sources[g.idx]
      entries == IF Truthy(payload) THEN EntriesOf(Get(payload, "models")) ELSE <<>>
      listed == MergeModels(g.models, source.sourceId, entries)
      models == [key \in DOMAIN listed |->
                   IF key \in DOMAIN g.models THEN g.models[key] ELSE listed[key]]
      merged == g.mergedAnyModel \/ entries /= <<>>
      h == [g EXCEPT !.models = models, !.mergedAnyModel = merged]
  IN IF merged
     THEN StartSource([h EXCEPT !.idx = @ + 1], requests)
     ELSE StartSource(SkipSource(h, "Failed to fetch models"), requests)

\* fetchGoogleModels returned payload: merge, close the source, go on
AfterModels(g, payload, requests) ==
  LET source == g.sources[g.idx]
      entries == IF Truthy(payload) THEN EntriesOf(Get(payload, "models")) ELSE <<>>
      models == MergeModels(g.models, source.sourceId, entries)
      merged == g.mergedAnyModel \/ entries /= <<>>
      h == [g EXCEPT !.models = models, !.mergedAnyModel = merged]
  IN IF merged
     THEN StartSource([h EXCEPT !.idx = @ + 1], requests)
     ELSE StartSource(SkipSource(h, "Failed to fetch models"), requests)

\* fetchGoogleModels gives up at the first endpoint that fails
ModelsEndpointFailed_GivesUp(g, requests) ==
  AfterModels(g, Null, requests)

\* fetchGoogleModels: the current endpoint failed; the next one, or null
ModelsEndpointFailed(g, requests) ==
  IF g.endpoint < Len(GOOGLE_ENDPOINTS)
  THEN Awaiting(requests, [g EXCEPT !.endpoint = @ + 1],
                ModelsCall(g.sources[g.idx], g.accessToken, g.endpoint + 1))
  ELSE AfterModels(g, Null, requests)

\* ------------------------------------------------------------ inputs

\* the identifiers a caller passes: the nine routed ones, "openai" (which
\* has a fetcher but no route) and an arbitrary one
ProviderIds == KnownProviders \cup {"openai", "mistral"}

Entry(access, token, key) == [t |-> "object", access |-> access, token |-> token, key |-> key]

\* what the store holds under one alias: nothing, a bare string, an object
BearerEntries ==
  { Null, Str(""), Str("bare-secret"), Bool(TRUE), Obj,
    Entry(Str("acc"), Null, Null),
    Entry(Null, Str("tok"), Null),
    Entry(Null, Null, Str("key")),
    Entry(Str(""), Str("tok"), Null),
    Entry(Null, Str("tok"), Str("")),
    Entry(Str("acc"), Str("tok"), Str("key")) }

GeminiEntries ==
  { Null, Str("bare-secret"), Obj,
    [t |-> "object", access |-> Str("ga"), refresh |-> Str("gr|gp"), expires |-> Num(9000)],
    [t |-> "object", access |-> Str("ga"), refresh |-> Str("gr"), expires |-> Num(4000)],
    [t |-> "object", access |-> Str("ga"), expires |-> Num(4)],
    [t |-> "object", refresh |-> Str(" gr ")],
    [t |-> "object", refresh |-> Str("|gp")],
    [t |-> "object", oauth |-> [t |-> "object", access |-> Str("oa"), refresh |-> Str(" ")]] }

GeminiAltEntries == { Null, [t |-> "object", token |-> Str("ga2")] }

File(json) == [state |-> "json", json |-> json]
Account(refreshToken) == [t |-> "object", refreshToken |-> refreshToken, email |-> Str("a@b.c")]

FirstFiles ==
  { [state |-> "missing"], [state |-> "malformed"], [state |-> "empty"],
    File([t |-> "object", accounts |-> Arr(<<>>)]),
    File([t |-> "object", accounts |-> Arr(<<Account(Str("ar|ap"))>>)]),
    File([t |-> "object", activeIndex |-> Num(5),
          accounts |-> Arr(<<Account(Str("ar")), Account(Str("ar-second"))>>)]),
    File([t |-> "object", accounts |-> Arr(<<Account(Str(" "))>>)]),
    File(O1("accounts", Arr(<<Account(Null)>>))) }

SecondFiles ==
  { [state |-> "empty"],
    File([t |-> "object", activeIndex |-> Num(1),
          accounts |-> Arr(<<Account(Str("|ap")), Account(Str("ar2"))>>)]) }

NoFiles == << [state |-> "missing"], [state |-> "missing"] >>

AliasSet(id) == { Aliases(id)[i] : i \in 1..Len(Aliases(id)) }

\* the stores a call for id is run against: every combination of entries
\* under the aliases its fetcher reads
StoresFor(id) ==
  IF id = "google"
  THEN { f \in [{"google", "google.oauth"} -> GeminiEntries \cup GeminiAltEntries] :
           /\ f["google"] \in GeminiEntries
           /\ f["google.oauth"] \in GeminiAltEntries
           /\ f["google.oauth"] /= Null => f["google"] \in {Null, Obj} }
  ELSE IF id \in BearerProviders
       THEN { f \in [AliasSet(id) -> BearerEntries] :
                Cardinality({ a \in AliasSet(id) : f[a] /= Null }) <= MaxEntries }
  ELSE { [a \in {"openai"} |-> e] : e \in {Null, Str("bare-secret")} }

FilesFor(id) ==
  IF id = "google"
  THEN { fs \in FirstFiles \X SecondFiles :
           /\ fs[2].state = "json" =>
                fs[1] \in {[state |-> "missing"], [state |-> "malformed"], [state |-> "empty"],
                           File([t |-> "object", accounts |-> Arr(<<>>)]),
                           File(O1("accounts", Arr(<<Account(Null)>>)))}
           /\ fs[1].state = "empty" => fs[2].state = "json" }
  ELSE {NoFiles}

\* what an outbound call can throw: an Error, an Error with an empty
\* message, a value that is no Error
ThrownValues ==
  { [isError |-> TRUE, message |-> "fetch failed"],
    [isError |-> TRUE, message |-> ""],
    [isError |-> FALSE, message |-> "boom"] }

NothingThrown == [isError |-> FALSE, message |-> "<none>"]

Statuses == {200, 429, 500}

\* lastStatus before any call was answered
NoStatus == 0 - 1

ResponseOk(status) == status >= 200 /\ status <= 299

Date0 == Str("1970-01-01T00:00:00Z")
DatePast == Str("1970-01-01T00:00:03Z")
DateSoon == Str("1970-01-01T00:00:07.500Z")
DateTenHours == Str("1970-01-01T10:00:05Z")
DateTenHoursAndABit == Str("1970-01-01T10:00:05.400Z")
DateLate == Str("1970-01-01T11:00:05Z")
DateBad == Str("not a date")

ClaudePayloads ==
  { Null,
    O2("five_hour", O2("utilization", Num(40), "resets_at", DateSoon),
       "seven_day", O2("utilization", Str("150"), "resets_at", Null)),
    O2("five_hour", O2("utilization", Num(-5), "resets_at", DateBad),
       "seven_day_opus", O2("utilization", Str(""), "resets_at", Num(3))) }

CodexPayloads ==
  { Null,
    O2("rate_limit",
         O2("primary_window",
              O3("used_percent", Num(30), "limit_window_seconds", Num(18000), "reset_at", Num(7)),
            "secondary_window",
              O3("used_percent", Str("abc"), "limit_window_seconds", Null, "reset_at", Num(4000))),
       "credits", O2("balance", Str("12"), "unlimited", Bool(FALSE))),
    O2("rate_limit",
         O1("primary_window",
              O3("used_percent", Num(120), "limit_window_seconds", Str("18000"),
                 "reset_at", DateLate)),
       "credits", O1("unlimited", Bool(TRUE))) }

CopilotPayloads ==
  { Null,
    O2("quota_reset_date", DateLate,
       "quota_snapshots",
         O3("chat", O2("entitlement", Num(200), "remaining", Num(50)),
            "completions", O2("entitlement", Num(0), "remaining", Num(10)),
            "premium_interactions", O2("entitlement", Num(100), "remaining", Num(300)))),
    O1("quota_snapshots",
         O3("chat", O2("entitlement", Str("100"), "remaining", Num(-50)),
            "completions", O2("entitlement", Num(100), "remaining", Str("")),
            "premium_interactions", O2("entitlement", Str(" "), "remaining", Bool(TRUE)))) }

KimiPayloads ==
  { Null,
    O2("usage", O3("limit", Str("100"), "remaining", Str("25"), "resetTime", DateSoon),
       "limits",
         Arr(<< O2("window", O2("duration", Num(5), "timeUnit", Str("TIME_UNIT_HOUR")),
                   "detail", O3("limit", Num(100), "remaining", Num(100), "resetTime", DatePast)),
                O2("window", O2("duration", Num(300), "timeUnit", Str("TIME_UNIT_MINUTE")),
                   "detail", O3("limit", Num(50), "remaining", Num(100), "resetTime", Num(7))),
                O2("window", O2("duration", Num(0), "timeUnit", Str("TIME_UNIT_DAY")),
                   "detail", O1("limit", Num(0))) >>)),
    O1("limits",
         Arr(<< O2("window", O2("duration", Num(7), "timeUnit", Str("TIME_UNIT_DAY")),
                   "detail", O2("limit", Num(10), "remaining", Num(5))),
                O1("window", O2("duration", Num(2), "timeUnit", Str("TIME_UNIT_WEEK"))),
                O1("detail", O2("limit", Num(4), "remaining", Num(1))) >>)) }

OpenRouterPayloads ==
  { Null,
    O1("data", O2("total_credits", Num(100), "total_usage", Num(25))),
    O1("data", O2("total_credits", Num(0), "total_usage", Num(5))),
    O1("data", O2("total_credits", Str("50"), "total_usage", Num(100))) }

ZaiPayloads ==
  { Null,
    O1("data", O1("limits",
         Arr(<< O2("type", Str("TIME_LIMIT"), "percentage", Num(99)),
                O5("type", Str("TOKENS_LIMIT"), "number", Num(5), "unit", Num(3),
                   "nextResetTime", Num(7), "percentage", Num(42)) >>))),
    O1("data", O1("limits",
         Arr(<< O3("type", Str("TOKENS_LIMIT"), "percentage", Num(-5),
                   "nextResetTime", Num(4000)) >>))),
    O1("data", O1("limits",
         Arr(<< O5("type", Str("TOKENS_LIMIT"), "number", Num(168), "unit", Num(3),
                   "usage", Num(200), "currentValue", Num(50)) >>))),
    O1("data", O1("limits",
         Arr(<< O4("type", Str("TOKENS_LIMIT"), "number", Num(1), "unit", Num(5),
                   "percentage", Num(150)) >>))) }

NanoGptPayloads ==
  { Null,
    O3("state", Str("active"),
       "daily", O2("percentUsed", Num(1), "resetAt", DateSoon),
       "monthly", O2("used", Num(50), "limit", Num(200))),
    O4("state", Str("grace"),
       "daily", O2("used", Num(5), "limit", Num(0)),
       "monthly", O2("used", Num(10), "limits", O1("monthly", Num(100))),
       "period", O1("currentPeriodEnd", DateLate)),
    O2("daily", O3("percentUsed", Num(2), "used", Num(1), "limit", Num(100)),
       "monthly", O3("percentUsed", Str("1"), "used", Num(300), "limit", Num(200))),
    O3("state", Str("suspended"),
       "daily", O2("used", Num(-5), "limit", Str("10")),
       "monthly", O1("percentUsed", Num(-1))),
    O2("state", Str("active"),
       "monthly", O2("used", Str("x"), "limit", Num(10))) }

BearerPayloads(id) ==
  CASE id = "claude" -> ClaudePayloads
    [] id = "codex" -> CodexPayloads
    [] id \in {"github-copilot", "github-copilot-addon"} -> CopilotPayloads
    [] id = "kimi-for-coding" -> KimiPayloads
    [] id = "nano-gpt" -> NanoGptPayloads
    [] id = "openrouter" -> OpenRouterPayloads
    [] id = "zai-coding-plan" -> ZaiPayloads

RefreshBodies ==
  { O1("access_token", Str("fresh")), Obj, O1("access_token", Str("")),
    O1("access_token", Num(5)) }

BucketBodies ==
  { Null,
    O1("buckets", Arr(<<>>)),
    O1("buckets",
         Arr(<< O3("modelId", Str("flash"), "remainingFraction", Str("1"), "resetTime", DateSoon),
                O2("modelId", Str(" "), "remainingFraction", Num(0)) >>)) }

Models(entries) == [t |-> "object", entries |-> entries]

ModelBodies ==
  { Null, Obj,
    O1("models", Models(<<>>)),
    O1("models",
         Models(<< <<"flash", O1("quotaInfo", O2("remainingFraction", Num(0),
                                                  "resetTime", DateBad))>>,
                   <<"pro", O1("quotaInfo", O2("remainingFraction", Num(1),
                                                "resetTime", DateLate))>> >>)),
    O1("models",
         Models(<< <<"antigravity/opus", O1("quotaInfo", O1("resetTime", Date0))>>,
                   <<"sonnet", O1("quotaInfo", O1("resetTime", DateTenHours))>>,
                   <<"haiku", O1("quotaInfo", O1("resetTime", DateTenHoursAndABit))>>,
                   <<"ultra", O1("quotaInfo", O1("resetTime", DateLate))>> >>)) }

\* the bodies response.json() of the call in flight can resolve to
Bodies(c, id) ==
  CASE c.kind = "usage" -> BearerPayloads(id)
    [] c.kind = "refresh" -> RefreshBodies
    [] c.kind = "buckets" -> BucketBodies
    [] c.kind = "models" -> ModelBodies

\* ------------------------------------------------------------ state

VARIABLES
  providerId,   \* the identifier fetchQuotaForProvider was called with
  auth,         \* what readAuthFile() returns: alias -> entry
  files,        \* the files at ANTIGRAVITY_ACCOUNTS_PATHS, in order
  pc,           \* "start", "await_fetch", "await_json", "done"
  call,         \* the outbound call in flight
  requests,     \* every outbound call issued, in order
  lastStatus,   \* the status the latest call was answered with, 0 when fetch threw
  reads,        \* who called readAuthFile(), in order
  g,            \* the locals of fetchGoogleQuota
  outcome,      \* "pending", "resolved", "rejected"
  result,       \* the ProviderResult the promise resolved to
  thrown,       \* the value the promise rejected with
  listed,       \* <<the set listConfiguredQuotaProviders() returned>>, or <<>>
  peer,         \* a second fetchQuotaForProvider call, run concurrently with this one
  tabs          \* the files-view tabs store: byRoot, the root the last operation wrote, the clock

\* the state of one call
callVars == <<providerId, auth, files, pc, call, requests, lastStatus, reads, g, outcome,
              result, thrown, listed>>

vars == <<callVars, peer, tabs>>

\* what no step of the call writes: its argument, the credential store, the
\* accounts files, the promise and locals of the other call, and the tabs store of the UI
inputs == <<providerId, auth, files, peer, tabs>>

\* no second call is made
NoPeer ==
  [providerId |-> "", pc |-> "idle", call |-> NoCall, requests |-> <<>>,
   lastStatus |-> NoStatus, g |-> NoLocals, outcome |-> "pending", result |-> NoResult,
   thrown |-> NothingThrown]

\* byRoot: {} of the files-view tabs store, before any operation on it: no root was
\* written yet, and the clock Date.now() reads is positive
NoTabs == [byRoot |-> <<>>, written |-> "", now |-> 1]

Init ==
  /\ providerId \in ProviderIds
  /\ auth \in StoresFor(providerId)
  /\ files \in FilesFor(providerId)
  /\ pc = "start"
  /\ call = NoCall
  /\ requests = <<>>
  /\ lastStatus = NoStatus
  /\ reads = <<>>
  /\ g = NoLocals
  /\ outcome = "pending"
  /\ result = NoResult
  /\ thrown = NothingThrown
  /\ listed = <<>>
  /\ peer = NoPeer
  /\ tabs = NoTabs

\* the variables a step of the call sets, from the configuration it reaches
Reach(c) ==
  /\ pc' = c.pc
  /\ call' = c.call
  /\ requests' = c.requests
  /\ g' = c.g
  /\ outcome' = c.outcome
  /\ result' = c.result

\* the promise rejects with e
Rejected(e) ==
  /\ pc' = "done"
  /\ call' = NoCall
  /\ outcome' = "rejected"
  /\ thrown' = e
  /\ UNCHANGED <<requests, g, result>>

\* an unknown identifier answered as a provider without a credential
UnsupportedResult_NotConfigured(id) ==
  buildResult(id, id, FALSE, FALSE, Null, Str("Not configured"))

\* the default branch of fetchQuotaForProvider's switch
UnsupportedResult(id) ==
  buildResult(id, id, FALSE, FALSE, Null, Str("Unsupported provider"))

\* an early return that carries an empty usage object
NotConfiguredResult_EmptyUsage(id) ==
  buildResult(id, ProviderName(id), FALSE, FALSE,
              [t |-> "object", windows |-> EmptyMap], Str("Not configured"))

\* the early return of a fetcher that found no credential
NotConfiguredResult(id) ==
  buildResult(id, ProviderName(id), FALSE, FALSE, Null, Str("Not configured"))

\* a non-2xx answer reported without its status
ApiErrorResult_Generic(id, status) ==
  buildResult(id, ProviderName(id), FALSE, TRUE, Null, Str("API error"))

\* `if (!response.ok) return buildResult(...)`
ApiErrorResult(id, status) ==
  buildResult(id, ProviderName(id), FALSE, TRUE, Null, Str("API error: " \o ToString(status)))

\* the catch block of a fetcher
CaughtResult(id, e) ==
  buildResult(id, ProviderName(id), FALSE, TRUE, Null,
              IF e.isError THEN Str(e.message) ELSE Str("Request failed"))

\* the successful return of a single-endpoint fetcher
UsageResult(id, payload) ==
  buildResult(id, ProviderName(id), TRUE, TRUE,
              [t |-> "object", windows |-> BearerWindows(id, payload)], Null)

\* a single-endpoint fetcher, from its call to its first await
StartBearer(id, store) ==
  IF ~Truthy(FetcherSecret(store, id))
  THEN Resolved(<<>>, NoLocals, NotConfiguredResult(id))
  ELSE Awaiting(<<>>, NoLocals, UsageCall(id, FetcherSecret(store, id)))

\* fetchGoogleQuota, from its call to its first await
StartGoogle(store, fs) ==
  IF resolveGoogleAuthSources(store, fs) = <<>>
  THEN Resolved(<<>>, NoLocals, NotConfiguredResult("google"))
  ELSE StartSource(GoogleLocals(resolveGoogleAuthSources(store, fs)), <<>>)

\* fetchQuotaForProvider(providerId): the switch, and the routed fetcher up
\* to its first await
fetchQuotaForProvider ==
  /\ pc = "start"
  /\ IF providerId \notin KnownProviders
     THEN /\ Reach(Resolved(<<>>, NoLocals, UnsupportedResult(providerId)))
          /\ UNCHANGED reads
     ELSE /\ reads' = Append(reads, "fetcher")
          /\ IF providerId = "google"
             THEN Reach(StartGoogle(auth, files))
             ELSE Reach(StartBearer(providerId, auth))
  /\ UNCHANGED <<inputs, lastStatus, thrown, listed>>

\* await fetch(...) throws e (transport failure, timeout)
FetchThrows(e) ==
  /\ pc = "await_fetch"
  /\ CASE call.kind = "usage" ->
            Reach(Resolved(requests, g, CaughtResult(providerId, e))) /\ UNCHANGED thrown
       [] call.kind = "refresh" -> Rejected(e)
       [] call.kind = "buckets" -> Reach(AfterBuckets(g, Null, requests)) /\ UNCHANGED thrown
       [] call.kind = "models" -> Reach(ModelsEndpointFailed(g, requests)) /\ UNCHANGED thrown
  /\ lastStatus' = 0
  /\ UNCHANGED <<inputs, reads, listed>>

\* await fetch(...) resolves to a response with this status
FetchResponds(status) ==
  /\ pc = "await_fetch"
  /\ IF ResponseOk(status)
     THEN /\ pc' = "await_json"
          /\ UNCHANGED <<call, requests, g, outcome, result>>
     ELSE CASE call.kind = "usage" ->
                 Reach(Resolved(requests, g, ApiErrorResult(providerId, status)))
            [] call.kind = "refresh" -> Reach(WithToken(g, Null, requests))
            [] call.kind = "buckets" -> Reach(AfterBuckets(g, Null, requests))
            [] call.kind = "models" -> Reach(ModelsEndpointFailed(g, requests))
  /\ lastStatus' = status
  /\ UNCHANGED <<inputs, reads, thrown, listed>>

\* await response.json() throws e (a body that is no JSON)
JsonThrows(e) ==
  /\ pc = "await_json"
  /\ CASE call.kind = "usage" ->
            Reach(Resolved(requests, g, CaughtResult(providerId, e))) /\ UNCHANGED thrown
       [] call.kind = "refresh" -> Rejected(e)
       [] call.kind = "buckets" -> Reach(AfterBuckets(g, Null, requests)) /\ UNCHANGED thrown
       [] call.kind = "models" -> Reach(ModelsEndpointFailed(g, requests)) /\ UNCHANGED thrown
  /\ UNCHANGED <<inputs, lastStatus, reads, listed>>

\* refreshGoogleAccessToken's return value for a parsed body
RefreshedToken(data) ==
  IF IsStr(Get(data, "access_token")) THEN Get(data, "access_token") ELSE Null

\* await response.json() resolves to body
JsonResolves(body) ==
  /\ pc = "await_json"
  /\ body \in Bodies(call, providerId)
  /\ CASE call.kind = "usage" -> Reach(Resolved(requests, g, UsageResult(providerId, body)))
       [] call.kind = "refresh" -> Reach(WithToken(g, RefreshedToken(body), requests))
       [] call.kind = "buckets" -> Reach(AfterBuckets(g, body, requests))
       [] call.kind = "models" -> Reach(AfterModels(g, body, requests))
  /\ UNCHANGED <<inputs, lastStatus, reads, thrown, listed>>

AllBodies ==
  UNION { BearerPayloads(id) : id \in BearerProviders }
  \cup RefreshBodies \cup BucketBodies \cup ModelBodies

\* listConfiguredQuotaProviders(), called once the fetch has settled
ListConfigured ==
  /\ pc = "done"
  /\ listed = <<>>
  /\ listed' = <<listConfiguredQuotaProviders(auth, files)>>
  /\ reads' = Append(reads, "list")
  /\ UNCHANGED <<inputs, pc, call, requests, lastStatus, g, outcome, result, thrown>>

Next ==
  \/ fetchQuotaForProvider
  \/ \E e \in ThrownValues : FetchThrows(e)
  \/ \E status \in Statuses : FetchResponds(status)
  \/ \E e \in ThrownValues : JsonThrows(e)
  \/ \E body \in AllBodies : JsonResolves(body)
  \/ ListConfigured

Spec == Init /\ [][Next]_vars

\* ------------------------------------------------------------ two concurrent calls

\* the promise and locals of the second call, from the configuration it reaches
PeerReach_SharedResult(c) ==
  /\ peer' = [peer EXCEPT !.pc = c.pc, !.call = c.call, !.requests = c.requests,
                          !.g = c.g, !.outcome = c.outcome, !.result = c.result]
  /\ result' = c.result
  /\ UNCHANGED <<providerId, auth, files, pc, call, requests, lastStatus, reads, g, outcome,
                 thrown, listed, tabs>>

\* the second call runs to its next await or return: it writes its own
\* promise and locals, and nothing else
PeerReach(c) ==
  /\ peer' = [peer EXCEPT !.pc = c.pc, !.call = c.call, !.requests = c.requests,
                          !.g = c.g, !.outcome = c.outcome, !.result = c.result]
  /\ UNCHANGED <<callVars, tabs>>

\* the configuration the second call is in
PeerConfig == Config(peer.pc, peer.call, peer.requests, peer.g, peer.outcome, peer.result)

\* the second call with its latest status (and, when it rejected, the value)
PeerNoted(c, status, e) ==
  [peer EXCEPT !.pc = c.pc, !.call = c.call, !.requests = c.requests, !.g = c.g,
               !.outcome = c.outcome, !.result = c.result,
               !.lastStatus = status, !.thrown = e]

\* the promise of the second call rejects with e
PeerRejected(e) ==
  Config("done", NoCall, peer.requests, peer.g, "rejected", peer.result)

\* fetchQuotaForProvider(peer.providerId), up to its first await
PeerFetchQuotaForProvider ==
  /\ peer.pc = "start"
  /\ PeerReach(IF peer.providerId \notin KnownProviders
               THEN Resolved(<<>>, NoLocals, UnsupportedResult(peer.providerId))
               ELSE IF peer.providerId = "google" THEN StartGoogle(auth, files)
               ELSE StartBearer(peer.providerId, auth))

\* what a failure of the second call's request in flight leads to
PeerFailed(e) ==
  CASE peer.call.kind = "usage" ->
         Resolved(peer.requests, peer.g, CaughtResult(peer.providerId, e))
    [] peer.call.kind = "refresh" -> PeerRejected(e)
    [] peer.call.kind = "buckets" -> AfterBuckets(peer.g, Null, peer.requests)
    [] peer.call.kind = "models" -> ModelsEndpointFailed(peer.g, peer.requests)

\* await fetch(...) of the second call throws e
PeerFetchThrows(e) ==
  /\ peer.pc = "await_fetch"
  /\ peer' = PeerNoted(PeerFailed(e), 0,
                       IF peer.call.kind = "refresh" THEN e ELSE peer.thrown)
  /\ UNCHANGED <<callVars, tabs>>

\* await fetch(...) of the second call resolves to a response with this status
PeerFetchResponds(status) ==
  /\ peer.pc = "await_fetch"
  /\ peer' = PeerNoted(
       IF ResponseOk(status)
       THEN Config("await_json", peer.call, peer.requests, peer.g, peer.outcome, peer.result)
       ELSE CASE peer.call.kind = "usage" ->
                   Resolved(peer.requests, peer.g, ApiErrorResult(peer.providerId, status))
              [] peer.call.kind = "refresh" -> WithToken(peer.g, Null, peer.requests)
              [] peer.call.kind = "buckets" -> AfterBuckets(peer.g, Null, peer.requests)
              [] peer.call.kind = "models" -> ModelsEndpointFailed(peer.g, peer.requests),
       status, peer.thrown)
  /\ UNCHANGED <<callVars, tabs>>

\* await response.json() of the second call throws e
PeerJsonThrows(e) ==
  /\ peer.pc = "await_json"
  /\ peer' = PeerNoted(PeerFailed(e), peer.lastStatus,
                       IF peer.call.kind = "refresh" THEN e ELSE peer.thrown)
  /\ UNCHANGED <<callVars, tabs>>

\* await response.json() of the second call resolves to body
PeerJsonResolves(body) ==
  /\ peer.pc = "await_json"
  /\ body \in Bodies(peer.call, peer.providerId)
  /\ PeerReach(
       CASE peer.call.kind = "usage" ->
              Resolved(peer.requests, peer.g, UsageResult(peer.providerId, body))
         [] peer.call.kind = "refresh" ->
              WithToken(peer.g, RefreshedToken(body), peer.requests)
         [] peer.call.kind = "buckets" -> AfterBuckets(peer.g, body, peer.requests)
         [] peer.call.kind = "models" -> AfterModels(peer.g, body, peer.requests))

\* the steps of the second call
PeerNext ==
  \/ PeerFetchQuotaForProvider
  \/ \E e \in ThrownValues : PeerFetchThrows(e)
  \/ \E status \in Statuses : PeerFetchResponds(status)
  \/ \E e \in ThrownValues : PeerJsonThrows(e)
  \/ \E body \in AllBodies : PeerJsonResolves(body)

\* the pairs of different providers fetched at the same time
PairedProviders ==
  { <<"google", "claude">>, <<"claude", "google">>,
    <<"github-copilot", "github-copilot-addon">>, <<"zai-coding-plan", "mistral">> }

\* the stores the paired calls are run against
PairedStores(id) ==
  CASE id = "google" ->
         { [a \in {"google", "google.oauth"} |->
              IF a = "google.oauth" THEN [t |-> "object", token |-> Str("ga2")] ELSE Null] }
    [] id \in BearerProviders ->
         { [a \in AliasSet(id) |-> IF a = Aliases(id)[1] THEN e ELSE Null] :
             e \in {Null, Entry(Str("acc"), Null, Str("key"))} }
    [] OTHER -> { [a \in {"openai"} |-> Str("bare-secret")] }

\* the accounts files the paired calls are run against
PairedFiles ==
  << [state |-> "missing"],
     File([t |-> "object", accounts |-> Arr(<<Account(Str("ar2"))>>)]) >>

\* two calls for different providers are made against one credential store
PairInit ==
  /\ \E pair \in PairedProviders :
       /\ providerId = pair[1]
       /\ peer = [NoPeer EXCEPT !.providerId = pair[2], !.pc = "start"]
       /\ \E mine \in PairedStores(pair[1]), theirs \in PairedStores(pair[2]) :
            auth = mine @@ theirs
  /\ files = PairedFiles
  /\ pc = "start"
  /\ call = NoCall
  /\ requests = <<>>
  /\ lastStatus = NoStatus
  /\ reads = <<>>
  /\ g = NoLocals
  /\ outcome = "pending"
  /\ result = NoResult
  /\ thrown = NothingThrown
  /\ listed = <<>>
  /\ tabs = NoTabs

\* the suspension points of the two calls interleave in any order
PairNext ==
  \/ fetchQuotaForProvider
  \/ \E e \in ThrownValues : FetchThrows(e)
  \/ \E status \in Statuses : FetchResponds(status)
  \/ \E e \in ThrownValues : JsonThrows(e)
  \/ \E body \in AllBodies : JsonResolves(body)
  \/ ListConfigured
  \/ PeerFetchQuotaForProvider
  \/ \E e \in ThrownValues : PeerFetchThrows(e)
  \/ \E status \in Statuses : PeerFetchResponds(status)
  \/ \E e \in ThrownValues : PeerJsonThrows(e)
  \/ \E body \in AllBodies : PeerJsonResolves(body)

PairSpec == PairInit /\ [][PairNext]_vars

\* ------------------------------------------------------------ properties

Range(seq) == { seq[i] : i \in 1..Len(seq) }

\* every UsageWindow of a ProviderResult: usage.windows and usage.models[*].windows
AllWindows(r) ==
  IF IsNull(r.usage) THEN {}
  ELSE { r.usage.windows[k] : k \in DOMAIN r.usage.windows }
       \cup (IF "models" \in DOMAIN r.usage
             THEN UNION { { r.usage.models[m].windows[k] : k \in DOMAIN r.usage.models[m].windows } :
                          m \in DOMAIN r.usage.models }
             ELSE {})

\* a non-blank string
NonBlank(v) == IsStr(v) /\ Trim(v.s) /= ""

\* a refresh token string whose token part (before the first '|') is not blank
HasRefreshPart(v) == IsStr(v) /\ Trim(Split(Trim(v.s), "|")[1]) /= ""

\* the entry holds a secret the fetcher of a single-endpoint provider can send
HoldsSecret(entry, field) ==
  \/ NonBlank(entry)
  \/ IsObj(entry) /\ (NonBlank(Get(entry, field)) \/ NonBlank(Get(entry, "token")))

\* the entry holds a Google access token or refresh token
HoldsGoogleToken(entry) ==
  \/ NonBlank(entry)
  \/ \E o \in {entry, Get(entry, "oauth")} :
       NonBlank(Get(o, "access")) \/ NonBlank(Get(o, "token")) \/ HasRefreshPart(Get(o, "refresh"))

\* some account of some accounts file holds a refresh token
HoldsAntigravityToken(fs) ==
  \E i \in 1..Len(fs) :
    \E account \in Range(ItemsOf(Get(readJsonFile(fs[i]), "accounts"))) :
      HasRefreshPart(Get(account, "refreshToken"))

\* the store (for Google: the store and the accounts files) holds a usable
\* credential under some alias of the provider
Usable(id) ==
  IF id = "google"
  THEN (\E a \in DOMAIN auth : HoldsGoogleToken(auth[a])) \/ HoldsAntigravityToken(files)
  ELSE \E a \in AliasSet(id) \cap DOMAIN auth : HoldsSecret(auth[a], SecretField(id))

\* the call was answered with a non-2xx status
AnsweredNon2xx == lastStatus > 0 /\ ~ResponseOk(lastStatus)

\* the fetcher returned early, reporting that no credential was found
ShortCircuited == outcome = "resolved" /\ ~result.configured

\* C1: fetchQuotaForProvider never rejects: whatever the identifier and
\* whatever each outbound call does, the promise resolves to a result whose
\* providerId is the identifier passed in.
C1_NeverRejects ==
  pc = "done" => (outcome = "resolved" /\ result.providerId = providerId)

\* C2: in every ProviderResult, ok is false iff error is a non-empty string,
\* and ok is true iff error is absent.
C2_ErrorIffNotOk ==
  outcome = "resolved" =>
    /\ (result.ok = FALSE) <=> (IsStr(result.error) /\ result.error.s /= "")
    /\ (result.ok = TRUE) <=> IsNull(result.error)

\* C3: a result with configured=false has ok=false and usage=null.
C3_UnconfiguredIsNotOk ==
  (outcome = "resolved" /\ ~result.configured) => (~result.ok /\ IsNull(result.usage))

\* a routed fetcher found an entry under an alias, but no secret in it
C3_Witness ==
  /\ outcome = "resolved" /\ ~result.configured
  /\ providerId \in KnownProviders
  /\ \E a \in DOMAIN auth : Truthy(auth[a])

\* C4: with no usable credential under any alias of the provider, its
\* fetcher sends no request at all and returns exactly configured=false,
\* ok=false, error="Not configured".
C4_NoCredentialNoRequest ==
  (providerId \in KnownProviders /\ ~Usable(providerId) /\ pc /= "start") =>
    /\ requests = <<>>
    /\ outcome = "resolved"
    /\ ~result.configured /\ ~result.ok
    /\ result.error = Str("Not configured")

C6_UnsupportedProvider ==
  (providerId \notin KnownProviders /\ pc /= "start") =>
    /\ pc = "done" /\ outcome = "resolved"
    /\ result.providerId = providerId
    /\ ~result.ok /\ ~result.configured
    /\ result.error = Str("Unsupported provider")
    /\ requests = <<>>
    /\ "fetcher" \notin Range(reads)

\* "openai" is asked for while the store holds an entry under "openai"
C6_Witness ==
  /\ providerId = "openai" /\ pc = "done"
  /\ Truthy(auth["openai"])
  /\ result.error = Str("Unsupported provider")

\* C7: listConfiguredQuotaProviders() contains an id iff the fetcher routed
\* for it, on the same store, does not short-circuit to configured=false.
C7_ListedIffConfigured ==
  (listed /= <<>> /\ providerId \in KnownProviders) =>
    (providerId \in listed[1] <=> ~ShortCircuited)

\* C8: every UsageWindow with a usedPercent has
\* remainingPercent = clamp(100 - usedPercent, 0, 100).
C8_RemainingClamped ==
  outcome = "resolved" =>
    \A w \in AllWindows(result) :
      ~IsNull(w.usedPercent) => w.remainingPercent = Num(Clamp100(100 - w.usedPercent.n))

\* C9: every UsageWindow with a resetAt has a resetAfterSeconds that is
\* >= 0 and equals max(0, floor((resetAt - now) / 1000)).
C9_CountdownFromResetAt ==
  outcome = "resolved" =>
    \A w \in AllWindows(result) :
      ~IsNull(w.resetAt) =>
        /\ IsNum(w.resetAfterSeconds)
        /\ w.resetAfterSeconds.n >= 0
        /\ IsNum(w.resetAt) =>
             w.resetAfterSeconds.n = Max(0, (w.resetAt.n - Now) \div 1000)

\* C10: the Google result is ok=false only if no model was obtained from
\* either source; once a source has yielded a model, whatever happens to the
\* other source, the result is ok=true and holds that source's models.
C10_GooglePartialSuccess ==
  (providerId = "google" /\ pc = "done") =>
    /\ (outcome = "resolved" /\ ~result.ok) => DOMAIN g.models = {}
    /\ DOMAIN g.models /= {} =>
         /\ outcome = "resolved" /\ result.ok
         /\ result.usage.models = g.models

\* ------------------------------------------------------------ Google: per-source steps

\* the label of a source, as the per-source error strings carry it
SourceLabel(sourceId) == IF sourceId = "gemini" THEN "Gemini" ELSE "Antigravity"

\* the position of a source in the source list, 0 when it is not in it
SourcePosition(sourceId) ==
  IF \E i \in 1..Len(g.sources) : g.sources[i].sourceId = sourceId
  THEN CHOOSE i \in 1..Len(g.sources) : g.sources[i].sourceId = sourceId
  ELSE 0

\* the k-th request is a refresh exchange that is over
RefreshSettled(k) ==
  requests[k].kind = "refresh" /\ (k < Len(requests) \/ pc = "done")

\* the k-th request is a refresh exchange that yielded an access token: the
\* next request is a data request of the same source
RefreshYieldedToken(k) ==
  /\ k < Len(requests)
  /\ requests[k + 1].source = requests[k].source
  /\ requests[k + 1].kind \in {"buckets", "models"}

\* the loop of fetchGoogleQuota has gone past the i-th source and stands at
\* the next one, or has returned
MovedPast(i) ==
  /\ outcome /= "rejected"
  /\ g.idx > i
  /\ g.idx <= Len(g.sources) => (pc /= "done" /\ call.source = g.sources[g.idx].sourceId)
  /\ g.idx > Len(g.sources) => (pc = "done" /\ outcome = "resolved")

\* the i-th source has to refresh and holds no refresh token
LacksRefreshToken(i) ==
  NeedsRefresh(g.sources[i]) /\ ~Truthy(g.sources[i].refreshToken)

\* C11: a failed refresh exchange (non-2xx, no access_token in the body, a
\* thrown transport failure) or a missing refresh token of one source is
\* recorded as a per-source error string, nothing is thrown, and the loop
\* goes on with the remaining source.
C11_RefreshFailureIsPerSource ==
  providerId = "google" =>
    /\ \A k \in 1..Len(requests) :
         (RefreshSettled(k) /\ ~RefreshYieldedToken(k)) =>
           /\ (SourceLabel(requests[k].source) \o ": Failed to refresh OAuth token")
                \in Range(g.sourceErrors)
           /\ MovedPast(SourcePosition(requests[k].source))
    /\ \A i \in 1..Len(g.sources) :
         (LacksRefreshToken(i) /\ (g.idx >= i \/ pc = "done")) =>
           /\ (g.sources[i].sourceLabel \o ": Missing refresh token") \in Range(g.sourceErrors)
           /\ MovedPast(i)

\* the i-th source holds a refresh token and a stored expiry that has passed
ExpiredWithRefreshToken(i) ==
  /\ TypeofNumber(Get(g.sources[i], "expires"))
  /\ Get(g.sources[i], "expires").n <= Now
  /\ Truthy(g.sources[i].refreshToken)

\* the k-th request asks the quota-bucket or a model-listing endpoint
DataRequest(k) == requests[k].kind \in {"buckets", "models"}

\* the keys of the merged models map that belong to a source
KeysOf(sourceId) == { key \in DOMAIN g.models : StartsWith(key, sourceId \o "/") }

\* C12: for a source whose stored expiry has passed and which holds a
\* refresh token, the refresh exchange precedes every quota or models request
\* of that source; when the exchange yields no access token, no quota or
\* models request is sent for that source (the stored token is not used) and
\* the models map holds no key of that source.
C12_ExpiredTokenIsRefreshedFirst ==
  providerId = "google" =>
    \A i \in 1..Len(g.sources) :
      ExpiredWithRefreshToken(i) =>
        LET id == g.sources[i].sourceId
            mine == { k \in 1..Len(requests) : requests[k].source = id }
        IN /\ \A k \in mine :
                DataRequest(k) =>
                  /\ \E j \in mine : j < k /\ requests[j].kind = "refresh"
                  /\ requests[k].bearer /= g.sources[i].accessToken.s
           /\ \A k \in mine :
                (requests[k].kind = "refresh" /\ (RefreshSettled(k) => ~RefreshYieldedToken(k))) =>
                  /\ \A j \in mine : ~DataRequest(j)
                  /\ KeysOf(id) = {}

\* the exchange of an expired Gemini source was answered without an access
\* token, and the call went on to return
C12_Witness ==
  /\ providerId = "google" /\ pc = "done" /\ outcome = "resolved"
  /\ Len(g.sources) >= 1 /\ ExpiredWithRefreshToken(1)
  /\ Truthy(g.sources[1].accessToken)
  /\ requests /= <<>> /\ requests[1].kind = "refresh" /\ ~RefreshYieldedToken(1)
  /\ "Gemini: Failed to refresh OAuth token" \in Range(g.sourceErrors)

\* the URLs of the model-listing requests sent for a source, in order
RECURSIVE ModelUrls(_, _)
ModelUrls(reqs, sourceId) ==
  IF reqs = <<>> THEN <<>>
  ELSE (IF Head(reqs).kind = "models" /\ Head(reqs).source = sourceId
        THEN <<Head(reqs).url>> ELSE <<>>)
       \o ModelUrls(Tail(reqs), sourceId)

\* the model-listing URLs of GOOGLE_ENDPOINTS, in list order
CandidateUrls ==
  [k \in 1..Len(GOOGLE_ENDPOINTS) |-> GOOGLE_ENDPOINTS[k] \o "/v1internal:fetchAvailableModels"]

\* the model-listing request in flight fails: its fetch throws (transport
\* error, timeout), it is answered non-2xx, or its body cannot be parsed
ModelsCandidateFails ==
  /\ call.kind = "models"
  /\ \/ \E e \in ThrownValues : FetchThrows(e)
     \/ \E status \in Statuses : ~ResponseOk(status) /\ FetchResponds(status)
     \/ \E e \in ThrownValues : JsonThrows(e)

\* the model-listing request in flight succeeds with this body
ModelsCandidateSucceeds(body) ==
  call.kind = "models" /\ JsonResolves(body)

C14_SourcesInOrder ==
  providerId = "google" =>
    /\ \A i, j \in 1..Len(g.sources) :
         i < j => (g.sources[i].sourceId = "gemini" /\ g.sources[j].sourceId = "antigravity")
    /\ \A k, j \in 1..Len(requests) :
         k < j => SourcePosition(requests[k].source) <= SourcePosition(requests[j].source)
    /\ \A k \in 1..Len(requests) :
         /\ SourcePosition(requests[k].source) >= 1
         /\ SourcePosition(requests[k].source) <= g.idx
    /\ pc \in {"await_fetch", "await_json"} =>
         /\ call = requests[Len(requests)]
         /\ SourcePosition(call.source) = g.idx

\* both sources were queried, and the call has returned
C14_Witness ==
  /\ providerId = "google" /\ pc = "done" /\ Len(g.sources) = 2
  /\ \E k, j \in 1..Len(requests) :
       /\ requests[k].source = "gemini" /\ requests[k].kind = "refresh"
       /\ requests[j].source = "antigravity" /\ requests[j].kind = "models"

\* C15: every source resolveGoogleAuthSources returns holds an access token
\* or a refresh token; an entry or account from which neither can be
\* extracted yields no source, does not make the provider count as
\* configured and takes no part in the fetch.
C15_NoInertSource ==
  (providerId = "google" /\ pc /= "start") =>
    /\ g.sources = resolveGoogleAuthSources(auth, files)
    /\ \A i \in 1..Len(g.sources) :
         Truthy(Get(g.sources[i], "accessToken")) \/ Truthy(g.sources[i].refreshToken)
    /\ (listed /= <<>> /\ ~Usable("google")) => "google" \notin listed[1]
    /\ (pc = "done" /\ ~Usable("google")) => ~result.configured

\* the model names a body of the request in flight brings: the model ids of
\* a bucket listing, the keys of a model listing
NamesIn(body) ==
  IF call.kind = "buckets"
  THEN { asNonEmptyString(Get(b, "modelId")).s :
           b \in { x \in Range(ItemsOf(Get(body, "buckets"))) :
                     Truthy(asNonEmptyString(Get(x, "modelId"))) } }
  ELSE IF call.kind = "models" /\ Truthy(body)
       THEN { e[1] : e \in Range(EntriesOf(Get(body, "models"))) }
  ELSE {}

\* the entries of the models map other than those of a source are untouched
OthersUntouched(sourceId) ==
  \A key \in DOMAIN g.models :
    ~StartsWith(key, sourceId \o "/") => (key \in DOMAIN g'.models /\ g'.models[key] = g.models[key])

\* C16 as stated: every merged model entry is stored under the key
\* "<sourceId>/<modelName>" of the source it came from.
C16_KeyIsSourceSlashName ==
  [][ \A body \in BucketBodies \cup ModelBodies :
        (call.kind \in {"buckets", "models"} /\ JsonResolves(body)) =>
          \A name \in NamesIn(body) : (call.source \o "/" \o name) \in DOMAIN g'.models
    ]_vars

\* C16 as amended: every merged model entry is stored under a key that starts
\* with "<sourceId>/" of the source it came from: the model name itself when
\* it already starts with that prefix, "<sourceId>/<modelName>" otherwise. The
\* keys of the two sources are disjoint and a merge of one source leaves the
\* entries of the other as they were.
C16_KeysScopedBySource ==
  [][ /\ \A body \in BucketBodies \cup ModelBodies :
           (call.kind \in {"buckets", "models"} /\ JsonResolves(body)) =>
             /\ \A name \in NamesIn(body) :
                  (IF StartsWith(name, call.source \o "/") THEN name
                   ELSE call.source \o "/" \o name) \in DOMAIN g'.models
             /\ \A key \in DOMAIN g'.models \ DOMAIN g.models :
                  StartsWith(key, call.source \o "/")
             /\ OthersUntouched(call.source)
      /\ \A key \in DOMAIN g'.models :
           StartsWith(key, "gemini/") \/ StartsWith(key, "antigravity/")
      /\ \A key \in DOMAIN g'.models :
           ~(StartsWith(key, "gemini/") /\ StartsWith(key, "antigravity/"))
      /\ \A key \in DOMAIN g.models : key \in DOMAIN g'.models
    ]_vars

\* both sources listed a model named "antigravity/opus": the Antigravity
\* source keeps the name, the Gemini source prefixes it
C16_Witness ==
  /\ providerId = "google" /\ pc = "done" /\ outcome = "resolved"
  /\ "antigravity/opus" \in DOMAIN g.models
  /\ "gemini/antigravity/opus" \in DOMAIN g.models
  /\ result.usage.models = g.models

\* C17: two fetches for different providers whose suspension points
\* interleave share no mutable state: every step is a step of one call as it
\* would run alone and leaves the other call as it was, the credential store
\* and the accounts files are never written, and a call that waits for a
\* response can be answered whatever the other call is doing.
C17_IndependentCalls ==
  /\ [][Next]_callVars
  /\ [][PeerNext]_peer
  /\ [][auth' = auth /\ files' = files]_vars
  /\ [](pc = "await_fetch" => ENABLED (\E status \in Statuses : FetchResponds(status)))
  /\ [](peer.pc = "await_fetch" => ENABLED (\E status \in Statuses : PeerFetchResponds(status)))

\* the Claude fetch returned its usage although the Google fetch, started
\* at the same time on the same store, rejected
C17_Witness ==
  /\ providerId = "claude" /\ pc = "done" /\ outcome = "resolved" /\ result.ok
  /\ peer.providerId = "google" /\ peer.outcome = "rejected"
  /\ Len(peer.requests) > 1

\* C18: when no model was obtained from any source, the result is
\* configured=true, ok=false with the first per-source error recorded in
\* source-processing order; on such a total failure every source has recorded
\* an error, so the generic "Failed to fetch models" is never what is shown.
C18_TotalFailureShowsFirstError ==
  (providerId = "google" /\ pc = "done" /\ g.sources /= <<>> /\ DOMAIN g.models = {}) =>
    /\ outcome = "resolved"
    /\ result.configured /\ ~result.ok /\ IsNull(result.usage)
    /\ Len(g.sourceErrors) = Len(g.sources)
    /\ \A i \in 1..Len(g.sourceErrors) :
         StartsWith(g.sourceErrors[i], g.sources[i].sourceLabel \o ": ")
    /\ result.error = Str(g.sourceErrors[1])

\* ---------------------------------------------------------------------------
\* Google: the window of a model entry

\* the entries merged so far; a resolved call with a model returns them
GoogleWindowsReturned ==
  (providerId = "google" /\ pc = "done" /\ outcome = "resolved" /\ DOMAIN g.models /= {}) =>
    result.usage.models = g.models

\* the one window of the entry under key is labelled label and lasts seconds
HasOnlyWindow(key, label, seconds) ==
  /\ DOMAIN g.models[key].windows = {label}
  /\ g.models[key].windows[label].windowSeconds = Num(seconds)

\* the reset instant the one window of the entry under key carries
ResetOf(key) ==
  LET windows == g.models[key].windows
  IN windows[CHOOSE label \in DOMAIN windows : TRUE].resetAt

\* C19: each Google model entry has exactly one window: for the Gemini
\* source its label is always "daily" with windowSeconds 86400; for the
\* Antigravity source it is "daily"/86400 when the reset instant is known and
\* lies more than 10 hours after now, and "5h"/18000 otherwise (an unknown
\* reset instant and exactly 10 hours remaining included).
C19_WindowByTenHours ==
  /\ GoogleWindowsReturned
  /\ \A key \in DOMAIN g.models :
       /\ Cardinality(DOMAIN g.models[key].windows) = 1
       /\ StartsWith(key, "gemini/") => HasOnlyWindow(key, "daily", 86400)
       /\ StartsWith(key, "antigravity/") =>
            IF IsNum(ResetOf(key)) /\ ResetOf(key).n - Now > 10 * 60 * 60 * 1000
            THEN HasOnlyWindow(key, "daily", 86400)
            ELSE HasOnlyWindow(key, "5h", 18000)

\* C19 as amended: the Antigravity window is "daily"/86400 when the reset
\* instant is known and the remaining time, rounded to the nearest whole
\* second, is more than 36000 seconds (the reset lies at least 10 hours and
\* half a second after now), and "5h"/18000 otherwise; the Gemini window is
\* always "daily"/86400 and every entry has exactly one window.
C19_WindowByRoundedSeconds ==
  /\ GoogleWindowsReturned
  /\ \A key \in DOMAIN g.models :
       /\ Cardinality(DOMAIN g.models[key].windows) = 1
       /\ StartsWith(key, "gemini/") => HasOnlyWindow(key, "daily", 86400)
       /\ StartsWith(key, "antigravity/") =>
            IF IsNum(ResetOf(key)) /\ ResetOf(key).n - Now >= 10 * 60 * 60 * 1000 + 500
            THEN HasOnlyWindow(key, "daily", 86400)
            ELSE HasOnlyWindow(key, "5h", 18000)

\* a returned result with a Gemini entry and Antigravity entries that reset
\* exactly 10 hours, 10 hours and 400 ms, and 11 hours after now
C19_Witness ==
  /\ providerId = "google" /\ pc = "done" /\ outcome = "resolved"
  /\ KeysOf("gemini") /= {}
  /\ {"antigravity/sonnet", "antigravity/haiku", "antigravity/ultra"} \subseteq DOMAIN g.models
  /\ ResetOf("antigravity/sonnet").n - Now = 10 * 60 * 60 * 1000
  /\ HasOnlyWindow("antigravity/sonnet", "5h", 18000)
  /\ HasOnlyWindow("antigravity/haiku", "5h", 18000)
  /\ HasOnlyWindow("antigravity/ultra", "daily", 86400)
  /\ result.usage.models = g.models

\* ---------------------------------------------------------------------------
\* z.ai: the used percentage of the token window

\* the TOKENS_LIMIT entry of a z.ai payload, null when there is none
TokensLimitOf(body) == FindTokensLimit(ItemsOf(Get(Get(body, "data"), "limits")))

\* the entry carries what a used/limit ratio needs: the tokens consumed
\* (currentValue) and a positive total (usage), both numbers
ZaiRatioKnown(limit) ==
  /\ IsNum(Get(limit, "currentValue"))
  /\ IsNum(Get(limit, "usage"))
  /\ Get(limit, "usage").n > 0

\* C20: the z.ai token-quota fetcher uses the upstream percentage field as
\* usedPercent when it is present, and when it is absent falls back to
\* computing usedPercent from a used/limit ratio; usedPercent is null only
\* when neither is available.
C20_PercentageElseRatio ==
  [][ \A body \in ZaiPayloads :
        (providerId = "zai-coding-plan" /\ JsonResolves(body) /\ Truthy(TokensLimitOf(body))) =>
          LET limit == TokensLimitOf(body)
              windows == result'.usage.windows
          IN /\ DOMAIN windows /= {}
             /\ \A label \in DOMAIN windows :
                  /\ TypeofNumber(Get(limit, "percentage")) =>
                       windows[label].usedPercent = Get(limit, "percentage")
                  /\ (~TypeofNumber(Get(limit, "percentage")) /\ ZaiRatioKnown(limit)) =>
                       windows[label].usedPercent =
                         Num((Get(limit, "currentValue").n * 100) \div Get(limit, "usage").n)
                  /\ IsNull(windows[label].usedPercent) =>
                       (~TypeofNumber(Get(limit, "percentage")) /\ ~ZaiRatioKnown(limit))
    ]_vars

\* ---------------------------------------------------------------------------
\* Kimi: the labels of the limits entries

\* the entries of payload.limits
KimiEntries(body) == ItemsOf(Get(body, "limits"))

\* the plain duration label of an entry and the seconds of its window
PlainLabel(entry) ==
  durationToLabel(Get(Get(entry, "window"), "duration"), Get(Get(entry, "window"), "timeUnit"))

IsFiveHours(entry) ==
  durationToSeconds(Get(Get(entry, "window"), "duration"),
                    Get(Get(entry, "window"), "timeUnit")) = Num(18000)

\* the last entry stored under a label is the one the label holds
LastUnder(entries, labelOf(_), i) ==
  \A j \in (i + 1)..Len(entries) : labelOf(entries[j]) /= labelOf(entries[i])

\* every entry is stored under labelOf(entry) and no other label is written
KimiStoredUnder(body, windows, labelOf(_)) ==
  LET entries == KimiEntries(body)
  IN /\ \A i \in 1..Len(entries) :
          /\ labelOf(entries[i]) \in DOMAIN windows
          /\ LastUnder(entries, labelOf, i) =>
               windows[labelOf(entries[i])] = KimiLimit(entries[i])[2]
     /\ DOMAIN windows \ {"weekly"} = { labelOf(entries[i]) : i \in 1..Len(entries) }

FiveHourLabel(entry) == IF IsFiveHours(entry) THEN "Rate Limit (5h)" ELSE PlainLabel(entry)

RateLimitLabel(entry) ==
  IF IsFiveHours(entry) THEN "Rate Limit (" \o PlainLabel(entry) \o ")" ELSE PlainLabel(entry)

\* C21: in fetchKimiQuota every limits entry whose window is exactly 5 hours
\* (18000 seconds, however the duration/unit pair expresses it) is stored under
\* the label "Rate Limit (5h)", and every other entry under the plain duration
\* label ("<n>m", "<n>h", "<n>d", or "limit").
C21_FiveHoursIsRateLimit5h ==
  [][ \A body \in KimiPayloads :
        (providerId = "kimi-for-coding" /\ JsonResolves(body)) =>
          KimiStoredUnder(body, result'.usage.windows, FiveHourLabel)
    ]_vars

\* C21 as amended: an entry whose window is exactly 18000 seconds is stored
\* under "Rate Limit (<plain duration label>)", which is "Rate Limit (5h)" for
\* 5 hours and "Rate Limit (300m)" for 300 minutes; every other entry is stored
\* under the plain duration label; a later entry replaces an earlier one with
\* the same label.
C21_FiveHoursIsRateLimit ==
  [][ \A body \in KimiPayloads :
        (providerId = "kimi-for-coding" /\ JsonResolves(body)) =>
          KimiStoredUnder(body, result'.usage.windows, RateLimitLabel)
    ]_vars

\* a Kimi result with a 5-hour, a 300-minute and a zero-duration entry
C21_Witness ==
  /\ providerId = "kimi-for-coding" /\ pc = "done" /\ outcome = "resolved" /\ result.ok
  /\ DOMAIN result.usage.windows = {"weekly", "Rate Limit (5h)", "Rate Limit (300m)", "limit"}

\* ---------------------------------------------------------------------------
\* NanoGPT: the two tiers

NanoGptTiers == {"daily", "monthly"}

\* the payload with one of its fields taken out
Without(body, field) ==
  IF IsObj(body) /\ field \in DOMAIN body THEN [body EXCEPT ![field] = Null] ELSE body

\* what the claim gives as the used percentage of a tier
TierUsedPercent(tier, key) ==
  LET percentUsed == Get(tier, "percentUsed")
      used == toNumber(Get(tier, "used"))
      limit == toNumber(Coalesce(Get(tier, "limit"), Get(Get(tier, "limits"), key)))
  IN IF IsNum(percentUsed) THEN Num(Max(0, Min(100, percentUsed.n * 100)))
     ELSE IF IsNull(used) \/ IsNull(limit) THEN Null
     ELSE IF limit.n > 0 THEN Num(Max(0, Min(100, (used.n * 100) \div limit.n)))
     ELSE Null

\* C22: in fetchNanoGptQuota the daily and monthly tiers are computed
\* independently of each other; each tier's usedPercent is percentUsed*100 when
\* percentUsed is a number, else used/limit*100 only when limit > 0 (never a
\* division by zero), clamped to [0,100], else null; a payload state other than
\* "active" only adds the bracketed state to the value label and the result
\* stays ok=true.
C22_NanoGptTiers ==
  [][ \A body \in NanoGptPayloads :
        (providerId = "nano-gpt" /\ JsonResolves(body)) =>
          LET windows == result'.usage.windows
              state == Coalesce(Get(body, "state"), Str("active"))
          IN /\ outcome' = "resolved" /\ result'.ok /\ result'.configured
             /\ IsNull(result'.error)
             /\ DOMAIN windows = { key \in NanoGptTiers : Truthy(Get(body, key)) }
             /\ \A key \in DOMAIN windows :
                  /\ windows[key].usedPercent = TierUsedPercent(Get(body, key), key)
                  /\ ~IsNull(windows[key].usedPercent) =>
                       windows[key].usedPercent.n \in 0..100
                  /\ windows[key].valueLabel =
                       IF state = Str("active") THEN Null ELSE Str("(" \o state.s \o ")")
                  /\ \A other \in NanoGptTiers \ {key} :
                       windows[key] = NanoGptWindows(Without(body, other))[key]
                  /\ windows[key] =
                       [NanoGptWindows(Without(body, "state"))[key]
                          EXCEPT !.valueLabel = windows[key].valueLabel]
    ]_vars

\* a result for a payload in state "grace" whose daily limit is 0 and whose
\* monthly tier has 10 of 100 used
C22_Witness ==
  /\ providerId = "nano-gpt" /\ pc = "done" /\ outcome = "resolved" /\ result.ok
  /\ DOMAIN result.usage.windows = {"daily", "monthly"}
  /\ IsNull(result.usage.windows["daily"].usedPercent)
  /\ result.usage.windows["monthly"].usedPercent = Num(10)
  /\ result.usage.windows["monthly"].valueLabel = Str("(grace)")

\* ---------------------------------------------------------------------------
\* Copilot: the window of a quota snapshot

\* the window labels and the snapshot each is built from
CopilotSnapshotField ==
  [label \in {"chat", "completions", "premium"} |->
     IF label = "premium" THEN "premium_interactions" ELSE label]

SnapshotOf(body, label) ==
  Get(Coalesce(Get(body, "quota_snapshots"), Obj), CopilotSnapshotField[label])

\* C23: for each Copilot quota snapshot (chat, completions, premium) with
\* numeric remaining and entitlement, usedPercent is
\* 100 - (remaining/entitlement)*100 clamped to [0,100] and the value label
\* "<remaining> / <entitlement> left" is attached alongside that percentage;
\* with entitlement 0 no division is performed and usedPercent is null.
C23_CopilotSnapshot ==
  [][ \A body \in CopilotPayloads :
        (providerId \in {"github-copilot", "github-copilot-addon"} /\ JsonResolves(body)) =>
          LET windows == result'.usage.windows
          IN \A label \in DOMAIN CopilotSnapshotField :
               LET snapshot == SnapshotOf(body, label)
                   entitlement == toNumber(Get(snapshot, "entitlement"))
                   remaining == toNumber(Get(snapshot, "remaining"))
               IN /\ (providerId = "github-copilot" /\ Truthy(snapshot)) =>
                       label \in DOMAIN windows
                  /\ label \in DOMAIN windows => Truthy(snapshot)
                  /\ (label \in DOMAIN windows /\ IsNum(entitlement) /\ IsNum(remaining)) =>
                       /\ windows[label].usedPercent =
                            IF entitlement.n = 0 THEN Null
                            ELSE Num(Max(0, Min(100,
                                   100 - (remaining.n * 100) \div entitlement.n)))
                       /\ windows[label].valueLabel =
                            Str(ToString(remaining.n) \o " / "
                                \o ToString(entitlement.n) \o " left")
    ]_vars

\* a Copilot result with 50 of 200 left for chat, an entitlement of 0 for
\* completions and more left than entitled for premium
C23_Witness ==
  /\ providerId = "github-copilot" /\ pc = "done" /\ outcome = "resolved" /\ result.ok
  /\ DOMAIN result.usage.windows = {"chat", "completions", "premium"}
  /\ result.usage.windows["chat"].usedPercent = Num(75)
  /\ result.usage.windows["chat"].valueLabel = Str("50 / 200 left")
  /\ IsNull(result.usage.windows["completions"].usedPercent)
  /\ result.usage.windows["completions"].valueLabel = Str("10 / 0 left")
  /\ result.usage.windows["premium"].usedPercent = Num(0)

\* ---------------------------------------------------------------------------
\* the credential resolver

\* what the fetcher routed for providerId resolves from the store
ResolvedEntry == normalizeAuthEntry(getAuthEntry(auth, Aliases(providerId)))

\* the entry of the first alias, in list order, whose entry satisfies chosen
FirstEntry(chosen(_)) ==
  LET aliases == Aliases(providerId)
      hits == { i \in 1..Len(aliases) : chosen(auth[aliases[i]]) }
  IN IF hits = {} THEN Null
     ELSE auth[aliases[CHOOSE i \in hits : \A j \in hits : i <= j]]

IsPresent(entry) == entry /= Null

\* C24: the credential resolver (getAuthEntry followed by normalizeAuthEntry)
\* returns the entry of the first alias, in list order, that is present in the
\* store, turning a bare string into { token: <string> } and returning an
\* object unchanged; it returns null when no alias is present; the store is
\* never modified. An earlier alias whose entry holds no usable secret is
\* still the one returned, and later aliases are not consulted.
C24_FirstPresentAlias ==
  /\ [](pc /= "start" =>
          LET entry == FirstEntry(IsPresent)
          IN /\ IsStr(entry) => ResolvedEntry = [t |-> "object", token |-> entry]
             /\ IsObj(entry) => ResolvedEntry = entry
             /\ IsNull(entry) => ResolvedEntry = Null)
  /\ [][auth' = auth]_vars

\* C24 as amended: the resolver returns the entry of the first alias, in list
\* order, whose entry is truthy (a missing entry, null and the empty string are
\* passed over and the next alias is consulted), turning a bare string into
\* { token: <string> } and returning an object unchanged; it returns null when
\* no alias holds a truthy entry or when that entry is neither a string nor an
\* object; the store is never modified. An earlier alias whose truthy entry
\* holds no usable secret is still the one returned.
C24_FirstTruthyAlias ==
  /\ [](pc /= "start" =>
          LET entry == FirstEntry(Truthy)
          IN ResolvedEntry = IF IsStr(entry) THEN [t |-> "object", token |-> entry]
                             ELSE IF IsObj(entry) THEN entry
                             ELSE Null)
  /\ [][auth' = auth]_vars

\* a z.ai call settled as not configured without a request: the first alias
\* holds an object with no secret, the second a usable bare string
C24_Witness ==
  /\ providerId = "zai-coding-plan" /\ pc = "done" /\ outcome = "resolved"
  /\ auth["zai-coding-plan"] = Obj /\ auth["zai"] = Str("bare-secret")
  /\ ResolvedEntry = Obj
  /\ requests = <<>> /\ ~result.configured

\* ---------------------------------------------------------------------------
\* number coercion

\* every value a payload carries, at any depth
RECURSIVE ValuesIn(_)
ValuesIn(v) ==
  IF v.t = "object" THEN {v} \cup UNION { ValuesIn(v[f]) : f \in DOMAIN v \ {"t"} }
  ELSE IF v.t = "array" THEN {v} \cup UNION { ValuesIn(v.items[i]) : i \in 1..Len(v.items) }
  ELSE {v}

\* a string that spells a number: digits with an optional sign, with or
\* without blanks around them
IsNumericString(v) ==
  /\ IsStr(v)
  /\ LET u == Trim(v.s)
         d == IF Len(u) > 0 /\ SubSeq(u, 1, 1) \in {"-", "+"} THEN SubSeq(u, 2, Len(u)) ELSE u
     IN Len(d) > 0 /\ AllDigits(d)

\* C25: number coercion (toNumber) returns the number for a finite number or
\* a numeric string and null for everything else: NaN, infinities, non-numeric
\* strings (including the empty and the whitespace-only string), booleans,
\* null and objects; it never throws.
C25_ToNumber ==
  [][ \A body \in AllBodies :
        (JsonResolves(body) /\ call.kind = "usage") =>
          \A v \in ValuesIn(body) :
            toNumber(v) = IF IsNum(v) THEN v
                          ELSE IF IsNumericString(v) THEN StringToNumber(v.s)
                          ELSE Null
    ]_vars

\* ---------------------------------------------------------------------------
\* Google: the Antigravity accounts files

\* a location that gives no account: a missing, empty or malformed file, or
\* JSON without a non-empty accounts array
NoAccounts(file) ==
  file.state /= "json" \/ Len(ItemsOf(Get(file.json, "accounts"))) = 0

\* the locations from the first one that gives accounts on
RECURSIVE FromFirstAccounts(_)
FromFirstAccounts(fs) ==
  IF fs = <<>> THEN <<>>
  ELSE IF NoAccounts(Head(fs)) THEN FromFirstAccounts(Tail(fs))
  ELSE fs

NoGoogleEntry == \A alias \in DOMAIN auth : IsNull(auth[alias])

\* the Antigravity source the call took up, null when it took none
AntigravityTaken ==
  LET at == { i \in 1..Len(g.sources) : g.sources[i].sourceId = "antigravity" }
  IN IF at = {} THEN Null ELSE g.sources[CHOOSE i \in at : TRUE]

\* C26: reading the Antigravity credential files never raises an error: a
\* missing file, an empty file, malformed JSON, or JSON without a non-empty
\* accounts array is treated as no accounts, and the next file location is
\* then tried; the Google provider is reported as not configured when neither
\* location yields an account and the main store has no Google entry.
C26_AccountsFilesNeverFail ==
  (providerId = "google" /\ pc /= "start") =>
    /\ requests = <<>> => outcome /= "rejected"
    /\ AntigravityTaken = resolveAntigravityAuth(FromFirstAccounts(files))
    /\ (\A i \in 1..Len(files) : NoAccounts(files[i])) => IsNull(AntigravityTaken)
    /\ ((\A i \in 1..Len(files) : NoAccounts(files[i])) /\ NoGoogleEntry) =>
         /\ pc = "done" /\ outcome = "resolved" /\ requests = <<>>
         /\ ~result.configured /\ ~result.ok
         /\ result.error = Str("Not configured")

\* the first location holds malformed JSON and the account of the second is
\* the source of the call
C26_Witness ==
  /\ providerId = "google" /\ pc /= "start"
  /\ files[1].state = "malformed" /\ files[2].state = "json"
  /\ ~IsNull(AntigravityTaken)
  /\ AntigravityTaken.refreshToken = Str("ar2")
  /\ requests /= <<>>

\* ---------------------------------------------------------------------------
\* Google: when the token endpoint is asked

\* the requests sent for a source
RequestsOf(sourceId) == { k \in 1..Len(requests) : requests[k].source = sourceId }

\* the refresh exchanges made for a source
RefreshesOf(sourceId) ==
  { k \in RequestsOf(sourceId) :
      requests[k].kind = "refresh" /\ requests[k].url = GOOGLE_TOKEN_URL }

\* the source holds an access token whose expiry lies ahead or is not known
HoldsFreshToken(source) ==
  /\ Truthy(Get(source, "accessToken"))
  /\ (IsNull(Get(source, "expires")) \/ Get(source, "expires").n > Now)

\* C27: fetchGoogleQuota sends a request to the OAuth token endpoint for a
\* source only if that source has no access token or its stored expiry is a
\* number not later than now; a source with an access token and an expiry in
\* the future, or with no known expiry, is queried with its stored token and
\* never triggers a refresh exchange; at most one refresh exchange is made per
\* source per call.
C27_RefreshOnlyWhenNeeded ==
  providerId = "google" =>
    /\ \A k \in 1..Len(requests) : SourcePosition(requests[k].source) > 0
    /\ \A i \in 1..Len(g.sources) :
         LET source == g.sources[i]
             id == source.sourceId
         IN /\ RefreshesOf(id) /= {} =>
                 \/ ~Truthy(Get(source, "accessToken"))
                 \/ (IsNum(Get(source, "expires")) /\ Get(source, "expires").n <= Now)
            /\ HoldsFreshToken(source) =>
                 /\ RefreshesOf(id) = {}
                 /\ \A k \in RequestsOf(id) :
                      DataRequest(k) /\ requests[k].bearer = source.accessToken.s
                 /\ (g.idx > i \/ pc = "done") => RequestsOf(id) /= {}
            /\ Cardinality(RefreshesOf(id)) <= 1

\* a call in which the Gemini source, holding a token that expires later and
\* a refresh token, was queried with the stored token, and the Antigravity
\* source was refreshed once
C27_Witness ==
  /\ providerId = "google" /\ pc = "done" /\ outcome = "resolved"
  /\ Len(g.sources) = 2
  /\ HoldsFreshToken(g.sources[1]) /\ Truthy(g.sources[1].refreshToken)
  /\ IsNum(g.sources[1].expires)
  /\ RefreshesOf("gemini") = {} /\ RequestsOf("gemini") /= {}
  /\ Cardinality(RefreshesOf("antigravity")) = 1

\* ---------------------------------------------------------------------------
\* Google: termination and the number of requests

\* an outbound call in flight returns or fails
Answered ==
  \/ \E e \in ThrownValues : FetchThrows(e)
  \/ \E status \in Statuses : FetchResponds(status)
  \/ \E e \in ThrownValues : JsonThrows(e)
  \/ \E body \in AllBodies : JsonResolves(body)

\* the Google entries and accounts files the terminating call is run against:
\* a Gemini entry that has to be refreshed, one that is used as stored, none;
\* an accounts file with a usable account, none
LiveStores ==
  { f \in StoresFor("google") :
      /\ f["google.oauth"] = Null
      /\ f["google"] \in { Null,
                           [t |-> "object", refresh |-> Str(" gr ")],
                           [t |-> "object", access |-> Str("ga"), refresh |-> Str("gr|gp"),
                            expires |-> Num(9000)] } }

LiveFiles ==
  { fs \in FilesFor("google") :
      /\ fs[2].state = "empty"
      /\ fs[1] \in { [state |-> "missing"],
                     File([t |-> "object", accounts |-> Arr(<<Account(Str("ar|ap"))>>)]) } }

LiveInit ==
  /\ Init
  /\ providerId = "google"
  /\ auth \in LiveStores
  /\ files \in LiveFiles

\* one Google call whose outbound calls all eventually return or fail
LiveSpec ==
  LiveInit /\ [][Next]_vars /\ WF_vars(Answered)

\* the requests of one kind sent for a source
KindOf(sourceId, kind) == { k \in RequestsOf(sourceId) : requests[k].kind = kind }

\* C28: provided every outbound call eventually returns or fails, one
\* fetchGoogleQuota call, once made, always terminates, after at most 1 refresh request,
\* 1 quota-bucket request (Gemini source only, never for Antigravity) and 3
\* model-listing requests per source, at most 9 requests for two sources; no
\* request is ever repeated against the same endpoint for the same source.
C28_TerminatesWithinNineRequests ==
  /\ (providerId = "google" /\ pc /= "start")
       ~> (pc = "done" /\ outcome \in {"resolved", "rejected"})
  /\ [](providerId = "google" =>
          /\ \A sourceId \in {"gemini", "antigravity"} :
               /\ Cardinality(KindOf(sourceId, "refresh")) <= 1
               /\ Cardinality(KindOf(sourceId, "buckets")) <= 1
               /\ Cardinality(KindOf(sourceId, "models")) <= 3
          /\ KindOf("antigravity", "buckets") = {}
          /\ Len(g.sources) <= 2
          /\ Len(requests) <= 9
          /\ \A k \in 1..Len(requests) :
               /\ requests[k].source \in {"gemini", "antigravity"}
               /\ requests[k].kind \in {"refresh", "buckets", "models"}
          /\ \A j, k \in 1..Len(requests) :
               (j /= k /\ requests[j].source = requests[k].source) =>
                 requests[j].url /= requests[k].url)

\* a call that ended after nine requests: five for Gemini, four for Antigravity
C28_Witness ==
  /\ providerId = "google" /\ pc = "done"
  /\ Len(requests) = 9
  /\ Cardinality(RequestsOf("gemini")) = 5
  /\ Cardinality(RequestsOf("antigravity")) = 4

\* ---------------------------------------------------------------------------
\* Google: the two endpoints of the Gemini source

\* what a model listing alone gives for the Gemini source
GeminiListed(body) ==
  MergeModels(EmptyMap, "gemini",
              IF Truthy(body) THEN EntriesOf(Get(body, "models")) ELSE <<>>)

\* C29: for the Gemini source the quota-bucket endpoint is queried before the
\* model-listing endpoint, and the model listing is queried whatever the
\* bucket query returned; when both report the same scoped model key the
\* model-listing entry replaces the bucket entry; the source counts as
\* successful (no "Failed to fetch models" error recorded) when either
\* endpoint contributed at least one model.
C29_BucketsThenModels ==
  /\ [](providerId = "google" =>
          /\ \A k \in KindOf("gemini", "models") :
               \E j \in KindOf("gemini", "buckets") : j < k
          /\ \A j \in KindOf("gemini", "buckets") :
               (j < Len(requests) \/ pc = "done") =>
                 /\ j < Len(requests)
                 /\ requests[j + 1].kind = "models"
                 /\ requests[j + 1].source = "gemini"
                 /\ requests[j + 1].url = CandidateUrls[1]
          /\ KeysOf("gemini") /= {} =>
               "Gemini: Failed to fetch models" \notin Range(g.sourceErrors))
  /\ [][ \A body \in ModelBodies :
           (call.kind = "models" /\ call.source = "gemini" /\ JsonResolves(body)) =>
             /\ \A key \in DOMAIN GeminiListed(body) :
                  key \in DOMAIN g'.models /\ g'.models[key] = GeminiListed(body)[key]
             /\ \A key \in DOMAIN g.models \ DOMAIN GeminiListed(body) :
                  key \in DOMAIN g'.models /\ g'.models[key] = g.models[key]
       ]_vars

\* a call whose Gemini source was asked for buckets and then for models; the
\* listing is the one that reports "flash" as used up, and no error is recorded
C29_Witness ==
  /\ providerId = "google" /\ pc = "done" /\ outcome = "resolved"
  /\ KindOf("gemini", "buckets") /= {} /\ KindOf("gemini", "models") /= {}
  /\ "gemini/flash" \in DOMAIN g.models
  /\ g.models["gemini/flash"].windows["daily"].usedPercent = Num(100)
  /\ "Gemini: Failed to fetch models" \notin Range(g.sourceErrors)

\* ---------------------------------------------------------------------------
\* The files-view tabs store (packages/ui/src/stores/useFilesViewTabsStore.ts).
\* byRoot is a sequence of entries in the insertion order of the record's keys,
\* which is the order Object.entries() lists them in; an entry carries its key
\* as root.
\* ---------------------------------------------------------------------------

\* the 20 of clampRoots(byRoot, 20), scaled down
MaxRoots == 2

\* the last value the clock reaches
MaxClock == 2

\* the roots the operations are called with
RootInputs == {"", "a", " b", "c\\d"}

\* the paths the operations are called with
PathInputs == {"", " p", "p\\q"}

\* the paths setSelectedPath is called with: string | null
SelectedInputs == {Null, Str(" p"), Str("p\\q")}

\* the paths the expansion operations are called with
ExpandInputs == {"", " p"}

\* the lists expandPaths is called with
ExpandLists == {<<>>, <<"", " p">>}

\* value.replace(/\\/g, '/')
RECURSIVE normalizePath(_)
normalizePath(value) ==
  IF Len(value) = 0 THEN ""
  ELSE (IF SubSeq(value, 1, 1) = "\\" THEN "/" ELSE SubSeq(value, 1, 1))
       \o normalizePath(SubSeq(value, 2, Len(value)))

\* normalizePath((value || '').trim())
Normalized(value) == normalizePath(Trim(value))

\* the position of the key root in byRoot, 0 when byRoot[root] is undefined
RECURSIVE RootIndex(_, _, _)
RootIndex(byRoot, root, i) ==
  IF i > Len(byRoot) THEN 0
  ELSE IF byRoot[i].root = root THEN i
  ELSE RootIndex(byRoot, root, i + 1)

HasRoot(byRoot, root) == RootIndex(byRoot, root, 1) /= 0

\* state.byRoot[normalizedRoot], read where it is defined
RootState(byRoot, root) == byRoot[RootIndex(byRoot, root, 1)]

\* { ...state.byRoot, [normalizedRoot]: entry }: an existing key keeps its place,
\* a new key comes last
Assign(byRoot, entry) ==
  IF HasRoot(byRoot, entry.root)
  THEN [byRoot EXCEPT ![RootIndex(byRoot, entry.root, 1)] = entry]
  ELSE Append(byRoot, entry)

\* entries.sort((a, b) => b.touchedAt - a.touchedAt): descending, and stable, so
\* entries with the same touchedAt keep the order they had
RECURSIVE SortByTouchedAt(_)
SortByTouchedAt(entries) ==
  IF entries = <<>> THEN <<>>
  ELSE LET sorted == SortByTouchedAt(SubSeq(entries, 1, Len(entries) - 1))
           e == entries[Len(entries)]
           before == Cardinality({ i \in 1..Len(sorted) : sorted[i].touchedAt >= e.touchedAt })
       IN SubSeq(sorted, 1, before) \o <<e>> \o SubSeq(sorted, before + 1, Len(sorted))

clampRoots(byRoot, maxRoots) ==
  IF Len(byRoot) <= maxRoots THEN byRoot
  ELSE SubSeq(SortByTouchedAt(byRoot), 1, maxRoots)

\* touchRoot(state.byRoot[root]) when Date.now() returns t
touchRoot(byRoot, root, t) ==
  IF HasRoot(byRoot, root)
  THEN [RootState(byRoot, root) EXCEPT !.touchedAt = t]
  ELSE [root |-> root, openPaths |-> <<>>, selectedPath |-> Null, expandedPaths |-> <<>>,
        touchedAt |-> t]

\* Array.prototype.includes
Includes(paths, p) == \E i \in 1..Len(paths) : paths[i] = p

\* paths.filter((p) => p !== removed)
RECURSIVE FilterOut(_, _)
FilterOut(paths, removed) ==
  IF paths = <<>> THEN <<>>
  ELSE (IF paths[1] = removed THEN <<>> ELSE <<paths[1]>>)
       \o FilterOut(SubSeq(paths, 2, Len(paths)), removed)

\* openPaths[0] ?? null
FirstOrNull(paths) == IF paths = <<>> THEN Null ELSE Str(paths[1])

\* String.prototype.endsWith
EndsWith(s, p) == Len(s) >= Len(p) /\ SubSeq(s, Len(s) - Len(p) + 1, Len(s)) = p

\* return state, or a return before set(): nothing is written
Kept(byRoot) == [byRoot |-> byRoot, written |-> ""]

\* return { byRoot: clampRoots({ ...state.byRoot, [normalizedRoot]: entry }, 20) };
\* written names the root whose entry the operation created or updated
Written(byRoot, entry) ==
  [byRoot |-> clampRoots(Assign(byRoot, entry), MaxRoots), written |-> entry.root]

\* what addOpenPath(root, path) does when Date.now() returns t
AddOpenPath(byRoot, root, path, t) ==
  LET normalizedRoot == Normalized(root)
      normalizedPath == Normalized(path)
      prev == HasRoot(byRoot, normalizedRoot)
      current == touchRoot(byRoot, normalizedRoot, t)
      exists == Includes(current.openPaths, normalizedPath)
      nextOpenPaths == IF exists THEN current.openPaths
                       ELSE Append(current.openPaths, normalizedPath)
      nextSelectedPath == IF current.selectedPath = Null THEN Str(normalizedPath)
                          ELSE current.selectedPath
  IN IF normalizedRoot = "" \/ normalizedPath = "" THEN Kept(byRoot)
     ELSE IF prev /\ exists /\ RootState(byRoot, normalizedRoot).selectedPath = nextSelectedPath
     THEN Kept(byRoot)
     ELSE Written(byRoot, [current EXCEPT !.openPaths = nextOpenPaths,
                                          !.selectedPath = nextSelectedPath])

\* what removeOpenPath(root, path) does
RemoveOpenPath(byRoot, root, path, t) ==
  LET normalizedRoot == Normalized(root)
      normalizedPath == Normalized(path)
      current == RootState(byRoot, normalizedRoot)
      openPaths == FilterOut(current.openPaths, normalizedPath)
      selectedPath == IF current.selectedPath = Str(normalizedPath) THEN FirstOrNull(openPaths)
                      ELSE current.selectedPath
  IN IF normalizedRoot = "" \/ normalizedPath = "" THEN Kept(byRoot)
     ELSE IF ~HasRoot(byRoot, normalizedRoot) THEN Kept(byRoot)
     ELSE IF ~Includes(current.openPaths, normalizedPath)
             /\ current.selectedPath /= Str(normalizedPath)
     THEN Kept(byRoot)
     ELSE Written(byRoot, [current EXCEPT !.openPaths = openPaths,
                                          !.selectedPath = selectedPath,
                                          !.touchedAt = t])

\* p === normalizedPrefix || p.startsWith(prefixWithSlash)
UnderPrefix(p, normalizedPrefix) ==
  LET prefixWithSlash == IF EndsWith(normalizedPrefix, "/") THEN normalizedPrefix
                         ELSE normalizedPrefix \o "/"
  IN p = normalizedPrefix \/ StartsWith(p, prefixWithSlash)

\* current.openPaths.filter((p) => p !== normalizedPrefix && !p.startsWith(prefixWithSlash))
RECURSIVE FilterOutPrefix(_, _)
FilterOutPrefix(paths, normalizedPrefix) ==
  IF paths = <<>> THEN <<>>
  ELSE (IF UnderPrefix(paths[1], normalizedPrefix) THEN <<>> ELSE <<paths[1]>>)
       \o FilterOutPrefix(SubSeq(paths, 2, Len(paths)), normalizedPrefix)

\* what removeOpenPathsByPrefix(root, prefixPath) does
RemoveOpenPathsByPrefix(byRoot, root, prefixPath, t) ==
  LET normalizedRoot == Normalized(root)
      normalizedPrefix == Normalized(prefixPath)
      current == RootState(byRoot, normalizedRoot)
      openPaths == FilterOutPrefix(current.openPaths, normalizedPrefix)
      selectedPath == IF current.selectedPath.t = "string" /\ current.selectedPath.s /= ""
                         /\ UnderPrefix(current.selectedPath.s, normalizedPrefix)
                      THEN FirstOrNull(openPaths)
                      ELSE current.selectedPath
  IN IF normalizedRoot = "" \/ normalizedPrefix = "" THEN Kept(byRoot)
     ELSE IF ~HasRoot(byRoot, normalizedRoot) THEN Kept(byRoot)
     ELSE IF Len(openPaths) = Len(current.openPaths) THEN Kept(byRoot)
     ELSE Written(byRoot, [current EXCEPT !.openPaths = openPaths,
                                          !.selectedPath = selectedPath,
                                          !.touchedAt = t])

\* what setSelectedPath(root, path) does; path is a string or null
SetSelectedPath(byRoot, root, path, t) ==
  LET normalizedRoot == Normalized(root)
      normalizedPath == IF path.t = "string" /\ path.s /= "" THEN Str(Normalized(path.s))
                        ELSE Null
      prev == HasRoot(byRoot, normalizedRoot)
      current == touchRoot(byRoot, normalizedRoot, t)
      appends == /\ normalizedPath /= Null
                 /\ normalizedPath.s /= ""
                 /\ ~Includes(current.openPaths, normalizedPath.s)
      openPaths == IF appends THEN Append(current.openPaths, normalizedPath.s)
                   ELSE current.openPaths
  IN IF normalizedRoot = "" THEN Kept(byRoot)
     ELSE IF prev /\ RootState(byRoot, normalizedRoot).selectedPath = normalizedPath /\ ~appends
     THEN Kept(byRoot)
     ELSE Written(byRoot, [current EXCEPT !.openPaths = openPaths,
                                          !.selectedPath = normalizedPath])

\* what ensureSelectedPath(root) does
EnsureSelectedPath(byRoot, root, t) ==
  LET normalizedRoot == Normalized(root)
      current == RootState(byRoot, normalizedRoot)
  IN IF normalizedRoot = "" THEN Kept(byRoot)
     ELSE IF ~HasRoot(byRoot, normalizedRoot) THEN Kept(byRoot)
     ELSE IF current.selectedPath /= Null /\ current.selectedPath.s /= "" THEN Kept(byRoot)
     ELSE IF current.openPaths = <<>> \/ current.openPaths[1] = "" THEN Kept(byRoot)
     ELSE SetSelectedPath(byRoot, normalizedRoot, Str(current.openPaths[1]), t)

\* what toggleExpandedPath(root, path) does; nextExpandedPaths is a new
\* array, so the early return is never taken
ToggleExpandedPath(byRoot, root, path, t) ==
  LET normalizedRoot == Normalized(root)
      normalizedPath == Normalized(path)
      current == touchRoot(byRoot, normalizedRoot, t)
      nextExpandedPaths == IF Includes(current.expandedPaths, normalizedPath)
                           THEN FilterOut(current.expandedPaths, normalizedPath)
                           ELSE Append(current.expandedPaths, normalizedPath)
  IN IF normalizedRoot = "" \/ normalizedPath = "" THEN Kept(byRoot)
     ELSE Written(byRoot, [current EXCEPT !.expandedPaths = nextExpandedPaths])

\* what expandPath(root, path) does
ExpandPath(byRoot, root, path, t) ==
  LET normalizedRoot == Normalized(root)
      normalizedPath == Normalized(path)
      current == touchRoot(byRoot, normalizedRoot, t)
  IN IF normalizedRoot = "" \/ normalizedPath = "" THEN Kept(byRoot)
     ELSE IF Includes(current.expandedPaths, normalizedPath) /\ HasRoot(byRoot, normalizedRoot)
     THEN Kept(byRoot)
     ELSE Written(byRoot, [current EXCEPT
                            !.expandedPaths = Append(@, normalizedPath)])

\* paths.map((p) => normalizePath((p || '').trim())).filter(Boolean)
\*      .filter((p) => !existingPaths.has(p))
RECURSIVE NewPaths(_, _)
NewPaths(paths, expandedPaths) ==
  IF paths = <<>> THEN <<>>
  ELSE (IF Normalized(paths[1]) = "" \/ Includes(expandedPaths, Normalized(paths[1]))
        THEN <<>> ELSE <<Normalized(paths[1])>>)
       \o NewPaths(SubSeq(paths, 2, Len(paths)), expandedPaths)

\* what expandPaths(root, paths) does
ExpandPaths(byRoot, root, paths, t) ==
  LET normalizedRoot == Normalized(root)
      current == touchRoot(byRoot, normalizedRoot, t)
      newPaths == NewPaths(paths, current.expandedPaths)
  IN IF normalizedRoot = "" \/ paths = <<>> THEN Kept(byRoot)
     ELSE IF newPaths = <<>> THEN Kept(byRoot)
     ELSE Written(byRoot, [current EXCEPT !.expandedPaths = @ \o newPaths])

\* what Date.now() may return: the clock never runs backwards, and two operations
\* may fall into the same millisecond
Clock == { t \in {tabs.now, tabs.now + 1} : t <= MaxClock }

\* the store after an operation that did op and read the clock at t
Stored(op, t) ==
  /\ tabs' = [byRoot |-> op.byRoot, written |-> op.written, now |-> t]
  /\ UNCHANGED <<callVars, peer>>

addOpenPath(root, path) ==
  \E t \in Clock : Stored(AddOpenPath(tabs.byRoot, root, path, t), t)

removeOpenPath(root, path) ==
  \E t \in Clock : Stored(RemoveOpenPath(tabs.byRoot, root, path, t), t)

removeOpenPathsByPrefix(root, prefixPath) ==
  \E t \in Clock : Stored(RemoveOpenPathsByPrefix(tabs.byRoot, root, prefixPath, t), t)

setSelectedPath(root, path) ==
  \E t \in Clock : Stored(SetSelectedPath(tabs.byRoot, root, path, t), t)

ensureSelectedPath(root) ==
  \E t \in Clock : Stored(EnsureSelectedPath(tabs.byRoot, root, t), t)

toggleExpandedPath(root, path) ==
  \E t \in Clock : Stored(ToggleExpandedPath(tabs.byRoot, root, path, t), t)

expandPath(root, path) ==
  \E t \in Clock : Stored(ExpandPath(tabs.byRoot, root, path, t), t)

expandPaths(root, paths) ==
  \E t \in Clock : Stored(ExpandPaths(tabs.byRoot, root, paths, t), t)

\* the store alone: no quota call is in progress
TabsInit ==
  /\ providerId = ""
  /\ auth = <<>>
  /\ files = <<>>
  /\ pc = "idle"
  /\ call = NoCall
  /\ requests = <<>>
  /\ lastStatus = NoStatus
  /\ reads = <<>>
  /\ g = NoLocals
  /\ outcome = "pending"
  /\ result = NoResult
  /\ thrown = NothingThrown
  /\ listed = <<>>
  /\ peer = NoPeer
  /\ tabs = NoTabs

TabsNext ==
  \/ \E root \in RootInputs, path \in PathInputs : addOpenPath(root, path)
  \/ \E root \in RootInputs, path \in PathInputs : removeOpenPath(root, path)
  \/ \E root \in RootInputs, path \in PathInputs : removeOpenPathsByPrefix(root, path)
  \/ \E root \in RootInputs, path \in SelectedInputs : setSelectedPath(root, path)
  \/ \E root \in RootInputs : ensureSelectedPath(root)
  \/ \E root \in RootInputs, path \in ExpandInputs : toggleExpandedPath(root, path)
  \/ \E root \in RootInputs, path \in ExpandInputs : expandPath(root, path)
  \/ \E root \in RootInputs, paths \in ExpandLists : expandPaths(root, paths)

TabsSpec == TabsInit /\ [][TabsNext]_vars

\* the byRoot of the store before an operation may have dropped roots from it:
\* a step drops the roots that are in the store before it and not after it
Evicted == { tabs.byRoot[i].root : i \in 1..Len(tabs.byRoot) }
             \ { tabs'.byRoot[i].root : i \in 1..Len(tabs'.byRoot) }

\* every root of the store but the written one was touched before t
OthersOlderThan(t) ==
  \A i \in 1..Len(tabs.byRoot) :
    tabs.byRoot[i].root /= tabs.written => tabs.byRoot[i].touchedAt < t

\* C30: after any sequence of operations the store holds at most the maximum
\* number of roots, and the root an operation has just created or updated is
\* still in the store after the operation (the clamp never evicts it), also
\* when several roots carry the same touchedAt value.
C30_TouchedRootSurvives ==
  /\ Len(tabs.byRoot) <= MaxRoots
  /\ tabs.written /= "" => HasRoot(tabs.byRoot, tabs.written)

\* C30, the part about the number of roots alone.
C30_AtMostMaxRoots == Len(tabs.byRoot) <= MaxRoots

\* C30, the part about the order of eviction alone: a root of the store that an
\* operation drops was touched no later than every root the operation keeps.
C30_EvictsOldest ==
  [][\A i \in 1..Len(tabs.byRoot) :
       tabs.byRoot[i].root \in Evicted =>
         \A j \in 1..Len(tabs'.byRoot) :
           tabs.byRoot[i].touchedAt <= tabs'.byRoot[j].touchedAt]_vars

\* C30 for a root written at a time later than the time every other root of the
\* store was touched at: the written root is in the store.
C30_SurvivesWithoutTies ==
  (tabs.written /= "" /\ OthersOlderThan(tabs.now)) => HasRoot(tabs.byRoot, tabs.written)

\* an operation has just created a root while the store was full of roots touched
\* in the same millisecond
C30_Witness ==
  /\ tabs.written /= ""
  /\ Len(tabs.byRoot) = MaxRoots
  /\ \A i \in 1..Len(tabs.byRoot) :
       tabs.byRoot[i].root /= tabs.written /\ tabs.byRoot[i].touchedAt = tabs.now

====
